---- MODULE Spec2Model ----
(***************************************************************************)
(* Montreal parking finder: the restriction parser (parse_restriction),    *)
(* the availability evaluator (is_parking_allowed) and the batch parser    *)
(* (parse_batch_restrictions) of data/parser.py, the interval generator    *)
(* (create_street_interval) and the street lookup (get_nearest_street) of  *)
(* geo/osm.py, the per-sign step (_process_sign_intervals) and the area    *)
(* summary (create_area_summary) of db/operations.py, the distances of     *)
(* geo/distance.py, and the analysis tasks of api/endpoints.py             *)
(* (start_analysis and its thread, get_task_status, get_task_intervals).   *)
(*                                                                         *)
(* A description is a sequence of one-character strings.  The regular      *)
(* expressions of the parser are kept as syntax trees and run by a         *)
(* backtracking matcher that returns its matches in the priority order of  *)
(* Python's re module, so that search, findall and the captured groups     *)
(* are computed the way the code computes them.                            *)
(***************************************************************************)
EXTENDS Integers, Sequences, FiniteSets, TLC

(***************************************************************************)
(* Characters and strings                                                  *)
(***************************************************************************)
Digit == {"0", "1", "2", "3", "4", "5", "6", "7", "8", "9"}

Upper == {"A", "B", "C", "D", "E", "F", "G", "H", "I", "J", "K", "L", "M",
          "N", "O", "P", "Q", "R", "S", "T", "U", "V", "W", "X", "Y", "Z"}

LowerOf == [c \in Upper |->
    CASE c = "A" -> "a" [] c = "B" -> "b" [] c = "C" -> "c" [] c = "D" -> "d"
      [] c = "E" -> "e" [] c = "F" -> "f" [] c = "G" -> "g" [] c = "H" -> "h"
      [] c = "I" -> "i" [] c = "J" -> "j" [] c = "K" -> "k" [] c = "L" -> "l"
      [] c = "M" -> "m" [] c = "N" -> "n" [] c = "O" -> "o" [] c = "P" -> "p"
      [] c = "Q" -> "q" [] c = "R" -> "r" [] c = "S" -> "s" [] c = "T" -> "t"
      [] c = "U" -> "u" [] c = "V" -> "v" [] c = "W" -> "w" [] c = "X" -> "x"
      [] c = "Y" -> "y" [] c = "Z" -> "z"]

Lower == {LowerOf[c] : c \in Upper}

\* \s of the re module, over the characters a description is built from
Space == {" "}

\* \w of the re module
WordChar == Upper \cup Lower \cup Digit \cup {"_"}

\* str.lower() of one character
LowerChar(c) == IF c \in Upper THEN LowerOf[c] ELSE c

\* str.lower()
LowerStr(s) == [i \in 1..Len(s) |-> LowerChar(s[i])]

\* s[i:j] of Python with 1-based i and exclusive j
Slice(s, i, j) == SubSeq(s, i, j - 1)

\* needle == s[i : i + len(needle)]
OccursAt(needle, s, i) ==
    /\ i + Len(needle) - 1 <= Len(s)
    /\ \A k \in 1..Len(needle) : s[i + k - 1] = needle[k]

\* needle in s
Contains(s, needle) == \E i \in 1..(Len(s) + 1) : OccursAt(needle, s, i)

\* s.startswith(prefix)
StartsWith(s, prefix) == OccursAt(prefix, s, 1)

\* int(s) of a string of decimal digits
DigitVal(c) ==
    CASE c = "0" -> 0 [] c = "1" -> 1 [] c = "2" -> 2 [] c = "3" -> 3
      [] c = "4" -> 4 [] c = "5" -> 5 [] c = "6" -> 6 [] c = "7" -> 7
      [] c = "8" -> 8 [] c = "9" -> 9

RECURSIVE IntOf(_)
IntOf(s) == IF s = <<>> THEN 0
            ELSE 10 * IntOf(SubSeq(s, 1, Len(s) - 1)) + DigitVal(s[Len(s)])

(***************************************************************************)
(* The matcher.  A pattern is a tuple whose first element names its kind:  *)
(*   <<"lit", c>>        the character c                                   *)
(*   <<"ilit", c>>       the character c under re.IGNORECASE               *)
(*   <<"set", S>>        one character of S                                *)
(*   <<"cat", ps>>       the patterns of ps one after the other            *)
(*   <<"alt", ps>>       p1|p2|...                                         *)
(*   <<"rep", p, m, n>>  p{m,n}, greedy; n = -1 for no upper limit         *)
(*   <<"grp", g, p>>     capturing group number g                          *)
(*   <<"wb">>            \b                                                *)
(*   <<"nw">>            (?!\w)                                            *)
(* A match state is <<pos, caps>>: the next position to read (from 1) and  *)
(* the <<from, to>> slice bounds of each group.                            *)
(***************************************************************************)
NoCaps == [g \in 1..5 |-> <<0, 0>>]

IsWordAt(s, i) == i >= 1 /\ i <= Len(s) /\ s[i] \in WordChar

RECURSIVE Match(_, _, _), MatchEach(_, _, _), MatchCat(_, _, _, _),
          MatchAlt(_, _, _, _), MatchRep(_, _, _, _, _), MatchRepEach(_, _, _, _, _)

\* the match states after pattern p read from state st, best first
Match(p, s, st) ==
    LET pos == st[1] IN
    CASE p[1] = "lit" ->
           IF pos <= Len(s) /\ s[pos] = p[2] THEN <<(<<pos + 1, st[2]>>)>> ELSE <<>>
      [] p[1] = "ilit" ->
           IF pos <= Len(s) /\ LowerChar(s[pos]) = LowerChar(p[2])
           THEN <<(<<pos + 1, st[2]>>)>> ELSE <<>>
      [] p[1] = "set" ->
           IF pos <= Len(s) /\ s[pos] \in p[2] THEN <<(<<pos + 1, st[2]>>)>> ELSE <<>>
      [] p[1] = "cat" -> MatchCat(p[2], 1, s, <<st>>)
      [] p[1] = "alt" -> MatchAlt(p[2], 1, s, st)
      [] p[1] = "rep" -> MatchRep(p[2], s, st, p[3], p[4])
      [] p[1] = "grp" ->
           LET inner == Match(p[3], s, st)
           IN [k \in 1..Len(inner) |->
                 <<inner[k][1], [st[2] EXCEPT ![p[2]] = <<pos, inner[k][1]>>]>>]
      [] p[1] = "wb" ->
           IF IsWordAt(s, pos - 1) # IsWordAt(s, pos) THEN <<st>> ELSE <<>>
      [] p[1] = "nw" ->
           IF IsWordAt(s, pos) THEN <<>> ELSE <<st>>

MatchEach(p, s, sts) ==
    IF sts = <<>> THEN <<>>
    ELSE Match(p, s, Head(sts)) \o MatchEach(p, s, Tail(sts))

MatchCat(ps, k, s, sts) ==
    IF k > Len(ps) \/ sts = <<>> THEN sts
    ELSE MatchCat(ps, k + 1, s, MatchEach(ps[k], s, sts))

MatchAlt(ps, k, s, st) ==
    IF k > Len(ps) THEN <<>>
    ELSE Match(ps[k], s, st) \o MatchAlt(ps, k + 1, s, st)

\* greedy: one more repetition is tried before stopping here
MatchRep(p, s, st, m, n) ==
    LET once == IF n = 0 THEN <<>>
                ELSE SelectSeq(Match(p, s, st), LAMBDA t : t[1] > st[1])
    IN MatchRepEach(p, s, once, m - 1, IF n < 0 THEN n ELSE n - 1)
         \o (IF m <= 0 THEN <<st>> ELSE <<>>)

MatchRepEach(p, s, sts, m, n) ==
    IF sts = <<>> THEN <<>>
    ELSE MatchRep(p, s, Head(sts), m, n) \o MatchRepEach(p, s, Tail(sts), m, n)

\* pattern.match(s, pos): the best match at pos, or <<>>
MatchAt(p, s, pos) ==
    LET r == Match(p, s, <<pos, NoCaps>>) IN IF r = <<>> THEN <<>> ELSE <<r[1]>>

\* re.search(p, s) is not None
Search(p, s) == \E i \in 1..(Len(s) + 1) : Match(p, s, <<i, NoCaps>>) # <<>>

\* pattern.findall(s): the successive non-overlapping matches, left to right
RECURSIVE FindAllFrom(_, _, _)
FindAllFrom(p, s, pos) ==
    IF pos > Len(s) + 1 THEN <<>>
    ELSE LET r == MatchAt(p, s, pos)
         IN IF r = <<>> THEN FindAllFrom(p, s, pos + 1)
            ELSE <<r[1]>> \o FindAllFrom(p, s, IF r[1][1] > pos THEN r[1][1] ELSE pos + 1)

FindAll(p, s) == FindAllFrom(p, s, 1)

\* the text a group captured
Group(s, m, g) == Slice(s, m[2][g][1], m[2][g][2])

\* pattern constructors
Lit(w) == <<"cat", [i \in 1..Len(w) |-> <<"lit", w[i]>>]>>
ILit(w) == <<"cat", [i \in 1..Len(w) |-> <<"ilit", w[i]>>]>>
Cat(ps) == <<"cat", ps>>
Alt(ps) == <<"alt", ps>>
Rep(p, m, n) == <<"rep", p, m, n>>
Opt(p) == <<"rep", p, 0, 1>>
Plus(p) == <<"rep", p, 1, -1>>
Grp(g, p) == <<"grp", g, p>>
AnyOf(S) == <<"set", S>>
Empty == <<"cat", <<>>>>

(***************************************************************************)
(* parse_restriction                                                       *)
(***************************************************************************)
\* None: a description that is missing, a special entry that is not set
None == <<"None">>

\* the result dictionary as parse_restriction initialises it
EmptyResult(desc) ==
    [type |-> "None", is_restricted |-> FALSE, time_ranges |-> <<>>,
     days |-> <<>>, date_ranges |-> <<>>, special |-> None,
     all_time |-> FALSE, raw_description |-> desc]

\* r'P\s+(\d+)\s+min'
paid_min_pattern ==
    Cat(<<Lit(<<"P">>), Plus(AnyOf(Space)), Grp(1, Plus(AnyOf(Digit))),
          Plus(AnyOf(Space)), Lit(<<"m", "i", "n">>)>>)

\* r'P\s+(\d+)h'
paid_hour_pattern ==
    Cat(<<Lit(<<"P">>), Plus(AnyOf(Space)), Grp(1, Plus(AnyOf(Digit))), Lit(<<"h">>)>>)

\* ParseType with the paid signature tested before the two markers
ParseType_PaidFirst(desc) ==
    IF \/ Contains(desc, <<"P", "A", "R", "C", "O", "M", "E", "T", "R", "E">>)
       \/ Search(paid_min_pattern, desc)
       \/ Search(paid_hour_pattern, desc) THEN <<"$", FALSE>>
    ELSE IF StartsWith(desc, <<"\\", "P">>) THEN <<"P", TRUE>>
    ELSE IF StartsWith(desc, <<"\\", "A">>) THEN <<"A", TRUE>>
    ELSE <<"None", FALSE>>

\* ParseType with paid parking marked as restricted
ParseType_PaidRestricted(desc) ==
    IF StartsWith(desc, <<"\\", "P">>) THEN <<"P", TRUE>>
    ELSE IF StartsWith(desc, <<"\\", "A">>) THEN <<"A", TRUE>>
    ELSE IF \/ Contains(desc, <<"P", "A", "R", "C", "O", "M", "E", "T", "R", "E">>)
            \/ Search(paid_min_pattern, desc)
            \/ Search(paid_hour_pattern, desc) THEN <<"$", TRUE>>
    ELSE <<"None", FALSE>>

\* the type and is_restricted entries
ParseType(desc) ==
    IF StartsWith(desc, <<"\\", "P">>) THEN <<"P", TRUE>>
    ELSE IF StartsWith(desc, <<"\\", "A">>) THEN <<"A", TRUE>>
    ELSE IF \/ Contains(desc, <<"P", "A", "R", "C", "O", "M", "E", "T", "R", "E">>)
            \/ Search(paid_min_pattern, desc)
            \/ Search(paid_hour_pattern, desc) THEN <<"$", FALSE>>
    ELSE <<"None", FALSE>>

\* 'EN TOUT TEMPS' in desc
ParseAllTime(desc) == Contains(desc, <<"E", "N", " ", "T", "O", "U", "T", " ", "T", "E", "M", "P", "S">>)

\* r'\d{1,2}h\d{0,2}'
clock_pattern == Cat(<<Rep(AnyOf(Digit), 1, 2), Lit(<<"h">>), Rep(AnyOf(Digit), 0, 2)>>)

\* r'(\d{1,2}h\d{0,2})-(\d{1,2}h\d{0,2})'
time_pattern == Cat(<<Grp(1, clock_pattern), Lit(<<"-">>), Grp(2, clock_pattern)>>)

\* str.replace('24', '00')
RECURSIVE Replace24(_)
Replace24(s) ==
    IF s = <<>> THEN <<>>
    ELSE IF OccursAt(<<"2", "4">>, s, 1)
         THEN <<"0", "0">> \o Replace24(SubSeq(s, 3, Len(s)))
         ELSE <<Head(s)>> \o Replace24(Tail(s))

\* the time_ranges entry
ParseTimeRanges(desc) ==
    LET time_matches == FindAll(time_pattern, desc)
    IN [k \in 1..Len(time_matches) |->
          <<Replace24(Group(desc, time_matches[k], 1)),
            Replace24(Group(desc, time_matches[k], 2))>>]

day_mapping == <<
    <<<<"L", "U", "N">>, "Monday">>,
    <<<<"L", "U", "N", "D", "I">>, "Monday">>,
    <<<<"M", "A", "R">>, "Tuesday">>,
    <<<<"M", "A", "R", "D", "I">>, "Tuesday">>,
    <<<<"M", "E", "R">>, "Wednesday">>,
    <<<<"M", "E", "R", "C", "R", "E", "D", "I">>, "Wednesday">>,
    <<<<"J", "E", "U">>, "Thursday">>,
    <<<<"J", "E", "U", "D", "I">>, "Thursday">>,
    <<<<"V", "E", "N">>, "Friday">>,
    <<<<"V", "E", "N", "D", "R", "E", "D", "I">>, "Friday">>,
    <<<<"S", "A", "M">>, "Saturday">>,
    <<<<"S", "A", "M", "E", "D", "I">>, "Saturday">>,
    <<<<"D", "I", "M">>, "Sunday">>,
    <<<<"D", "I", "M", "A", "N", "C", "H", "E">>, "Sunday">> >>

\* DayPattern without the (?!\w) that ends it
DayPattern_NoLookahead(fr_day) == Cat(<<(<<"wb">>), Lit(fr_day), Opt(Lit(<<".">>))>>)

\* r'\b' + fr_day + r'\.?(?!\w)'
DayPattern(fr_day) == Cat(<<(<<"wb">>), Lit(fr_day), Opt(Lit(<<".">>)), (<<"nw">>)>>)

\* the loop over day_mapping: the days matched one by one, each once
RECURSIVE IndividualDays(_, _, _)
IndividualDays(desc, k, days) ==
    IF k > Len(day_mapping) THEN days
    ELSE LET en_day == day_mapping[k][2]
         IN IndividualDays(desc, k + 1,
              IF /\ Search(DayPattern(day_mapping[k][1]), desc)
                 /\ \A j \in 1..Len(days) : days[j] # en_day
              THEN Append(days, en_day) ELSE days)

\* r'LUN\.?\s+(AU|A|ET)\s+' + last + r'\.?'
DayRangePattern(last) ==
    Cat(<<Lit(<<"L", "U", "N">>), Opt(Lit(<<".">>)), Plus(AnyOf(Space)),
          Grp(1, Alt(<<Lit(<<"A", "U">>), Lit(<<"A">>), Lit(<<"E", "T">>)>>)),
          Plus(AnyOf(Space)), Lit(last), Opt(Lit(<<".">>))>>)

\* re.search(r'LUN\.?\s+(AU|A|ET)\s+XXX\.?', desc) or 'LUN A XXX' in desc
HasDayRange(desc, last) ==
    \/ Search(DayRangePattern(last), desc)
    \/ Contains(desc, <<"L", "U", "N", " ", "A", " ">> \o last)

Weekdays == <<"Monday", "Tuesday", "Wednesday", "Thursday", "Friday", "Saturday", "Sunday">>

\* ParseDays with a day range added to the days matched one by one
ParseDays_Union(desc) ==
    LET days == IndividualDays(desc, 1, <<>>)
        last == IF HasDayRange(desc, <<"V", "E", "N">>) THEN 5
                ELSE IF HasDayRange(desc, <<"S", "A", "M">>) THEN 6
                ELSE IF HasDayRange(desc, <<"D", "I", "M">>) THEN 7
                ELSE 0
    IN SelectSeq(Weekdays,
         LAMBDA d : (\E k \in 1..last : Weekdays[k] = d) \/ (\E k \in 1..Len(days) : days[k] = d))

\* the days entry: a day range replaces the days matched one by one
ParseDays(desc) ==
    LET days == IndividualDays(desc, 1, <<>>)
    IN IF HasDayRange(desc, <<"V", "E", "N">>) THEN SubSeq(Weekdays, 1, 5)
       ELSE IF HasDayRange(desc, <<"S", "A", "M">>) THEN SubSeq(Weekdays, 1, 6)
       ELSE IF HasDayRange(desc, <<"D", "I", "M">>) THEN SubSeq(Weekdays, 1, 7)
       ELSE days

month_mapping == <<
    <<<<"J", "A", "N", "V", "I", "E", "R">>, 1>>,
    <<<<"J", "A", "N">>, 1>>,
    <<<<"F", "E", "V", "R", "I", "E", "R">>, 2>>,
    <<<<"F", "E", "V">>, 2>>,
    <<<<"M", "A", "R", "S">>, 3>>,
    <<<<"M", "A", "R">>, 3>>,
    <<<<"A", "V", "R", "I", "L">>, 4>>,
    <<<<"A", "V", "R">>, 4>>,
    <<<<"M", "A", "I">>, 5>>,
    <<<<"J", "U", "I", "N">>, 6>>,
    <<<<"J", "U", "I", "L", "L", "E", "T">>, 7>>,
    <<<<"J", "U", "I", "L">>, 7>>,
    <<<<"A", "O", "U", "T">>, 8>>,
    <<<<"S", "E", "P", "T", "E", "M", "B", "R", "E">>, 9>>,
    <<<<"S", "E", "P", "T">>, 9>>,
    <<<<"O", "C", "T", "O", "B", "R", "E">>, 10>>,
    <<<<"O", "C", "T">>, 10>>,
    <<<<"N", "O", "V", "E", "M", "B", "R", "E">>, 11>>,
    <<<<"N", "O", "V">>, 11>>,
    <<<<"D", "E", "C", "E", "M", "B", "R", "E">>, 12>>,
    <<<<"D", "E", "C">>, 12>> >>

\* the month names of date_pattern, in the order of its alternation
date_pattern_months == <<
    <<"J", "A", "N", "V", "I", "E", "R">>,
    <<"J", "A", "N">>,
    <<"F", "E", "V", "R", "I", "E", "R">>,
    <<"F", "E", "V">>,
    <<"M", "A", "R", "S">>,
    <<"A", "V", "R", "I", "L">>,
    <<"A", "V", "R">>,
    <<"M", "A", "I">>,
    <<"J", "U", "I", "N">>,
    <<"J", "U", "I", "L", "L", "E", "T">>,
    <<"J", "U", "I", "L">>,
    <<"A", "O", "U", "T">>,
    <<"S", "E", "P", "T", "E", "M", "B", "R", "E">>,
    <<"S", "E", "P", "T">>,
    <<"O", "C", "T", "O", "B", "R", "E">>,
    <<"O", "C", "T">>,
    <<"N", "O", "V", "E", "M", "B", "R", "E">>,
    <<"N", "O", "V">>,
    <<"D", "E", "C", "E", "M", "B", "R", "E">>,
    <<"D", "E", "C">> >>

month_alternation == Alt([k \in 1..Len(date_pattern_months) |-> ILit(date_pattern_months[k])])

\* r'(\d{1,2})(?:ER|er|)?'
DayNumberPattern(g) ==
    Cat(<<Grp(g, Rep(AnyOf(Digit), 1, 2)),
          Opt(Alt(<<ILit(<<"E", "R">>), ILit(<<"e", "r">>), Empty>>))>>)

\* the date range pattern, compiled with re.IGNORECASE
date_pattern ==
    Cat(<<DayNumberPattern(1), Plus(AnyOf(Space)), Grp(2, month_alternation),
          Opt(Lit(<<".">>)), Plus(AnyOf(Space)),
          Grp(3, Alt(<<ILit(<<"A", "U">>), ILit(<<"A">>), ILit(<<"E", "T">>)>>)),
          Plus(AnyOf(Space)), DayNumberPattern(4), Plus(AnyOf(Space)),
          Grp(5, month_alternation)>>)

\* the loop over month_mapping: the number of the last name found in the token
RECURSIVE MonthNumber(_, _, _)
MonthNumber(token, k, found) ==
    IF k > Len(month_mapping) THEN found
    ELSE MonthNumber(token, k + 1,
           IF Contains(LowerStr(token), LowerStr(month_mapping[k][1]))
           THEN month_mapping[k][2] ELSE found)

\* the date range of one match of date_pattern, with months 0 when not found
DateRangeOf(desc, m) ==
    [start_day |-> IntOf(Group(desc, m, 1)),
     start_month |-> MonthNumber(Group(desc, m, 2), 1, 0),
     end_day |-> IntOf(Group(desc, m, 4)),
     end_month |-> MonthNumber(Group(desc, m, 5), 1, 0)]

\* the date_ranges entry
ParseDateRanges(desc) ==
    LET date_matches == FindAll(date_pattern, desc)
        ranges == [k \in 1..Len(date_matches) |-> DateRangeOf(desc, date_matches[k])]
    IN SelectSeq(ranges, LAMBDA r : r.start_month > 0 /\ r.end_month > 0)

special_conditions == <<
    <<"R", "E", "S", "E", "R", "V", "E">>,
    <<"H", "A", "N", "D", "I", "C", "A", "P">>,
    <<"T", "A", "X", "I">>,
    <<"L", "I", "V", "R", "A", "I", "S", "O", "N">>,
    <<"A", "U", "T", "O", "B", "U", "S">>,
    <<"D", "E", "B", "A", "R", "C", "A", "D", "E", "R", "E">>,
    <<"S", "3", "R">>,
    <<"M", "O", "T", "O", "S">>,
    <<"C", "O", "R", "P", "S", " ", "D", "I", "P", "L", "O", "M", "A", "T", "I", "Q", "U", "E", "S">>,
    <<"S", "E", "R", "V", "I", "C", "E", " ", "D", "'", "I", "N", "C", "E", "N", "D", "I", "E">>,
    <<"V", "E", "H", "I", "C", "U", "L", "E", "S", " ", "D", "E", " ", "L", "A", " ", "V", "I", "L", "L", "E">>,
    <<"V", "E", "H", "I", "C", "U", "L", "E", "S", " ", "M", "I", "L", "I", "T", "A", "I", "R", "E", "S">> >>

\* the loop without its break: the last condition of the list found in desc
RECURSIVE FirstSpecial_NoBreak(_, _)
FirstSpecial_NoBreak(desc, k) ==
    IF k > Len(special_conditions) THEN None
    ELSE LET later == FirstSpecial_NoBreak(desc, k + 1)
         IN IF later # None THEN later
            ELSE IF Contains(desc, special_conditions[k]) THEN special_conditions[k]
            ELSE None

\* the special entry: the first condition of the list found in desc
RECURSIVE FirstSpecial(_, _)
FirstSpecial(desc, k) ==
    IF k > Len(special_conditions) THEN None
    ELSE IF Contains(desc, special_conditions[k]) THEN special_conditions[k]
    ELSE FirstSpecial(desc, k + 1)

parse_restriction(desc) ==
    IF desc = None \/ desc = <<>> THEN EmptyResult(desc)
    ELSE [type |-> ParseType(desc)[1],
          is_restricted |-> ParseType(desc)[2],
          time_ranges |-> ParseTimeRanges(desc),
          days |-> ParseDays(desc),
          date_ranges |-> ParseDateRanges(desc),
          special |-> FirstSpecial(desc, 1),
          all_time |-> ParseAllTime(desc),
          raw_description |-> desc]

(***************************************************************************)
(* is_parking_allowed                                                      *)
(*                                                                         *)
(* A timestamp is [weekday, month, day, hour, minute, second]: the parts   *)
(* of current_datetime the function reads (strftime('%A'), .time(),        *)
(* .month, .day).                                                          *)
(***************************************************************************)
\* x.split('h')[0]
BeforeH(x) ==
    LET hs == {i \in 1..Len(x) : x[i] = "h"}
    IN IF hs = {} THEN x ELSE SubSeq(x, 1, (CHOOSE i \in hs : \A j \in hs : i <= j) - 1)

\* x.split('h')[1], for an x that holds an 'h'
AfterH(x) ==
    LET hs == {i \in 1..Len(x) : x[i] = "h"}
        first == CHOOSE i \in hs : \A j \in hs : i <= j
        later == {i \in hs : i > first}
        stop == IF later = {} THEN Len(x) + 1 ELSE CHOOSE i \in later : \A j \in later : i <= j
    IN SubSeq(x, first + 1, stop - 1)

\* the hours and minutes read from a time string such as 09h30 or 9h
ClockHours(x) == IntOf(BeforeH(x))

ClockMinutes(x) ==
    IF (\E i \in 1..Len(x) : x[i] = "h") /\ Len(AfterH(x)) > 0 THEN IntOf(AfterH(x)) ELSE 0

\* datetime.time(hours, minutes) raises ValueError outside these
TimeIsValid(hours, minutes) == hours \in 0..23 /\ minutes \in 0..59

\* a time of day as seconds since midnight, the order datetime.time compares by
SecondsOfDay(hours, minutes, seconds) == (hours * 60 + minutes) * 60 + seconds

\* TimeInWindow with the end of the window left out
TimeInWindow_EndExcluded(window, now) ==
    LET start_time == SecondsOfDay(ClockHours(window[1]), ClockMinutes(window[1]), 0)
        end_time == SecondsOfDay(ClockHours(window[2]), ClockMinutes(window[2]), 0)
        current_time == SecondsOfDay(now.hour, now.minute, now.second)
    IN start_time <= current_time /\ current_time < end_time

\* TimeInWindow with a window that ends before it starts taken to run past
\* midnight
TimeInWindow_Wrapped(window, now) ==
    LET start_time == SecondsOfDay(ClockHours(window[1]), ClockMinutes(window[1]), 0)
        end_time == SecondsOfDay(ClockHours(window[2]), ClockMinutes(window[2]), 0)
        current_time == SecondsOfDay(now.hour, now.minute, now.second)
    IN IF start_time <= end_time
       THEN start_time <= current_time /\ current_time <= end_time
       ELSE start_time <= current_time \/ current_time <= end_time

\* start_time <= current_time <= end_time
TimeInWindow(window, now) ==
    LET start_time == SecondsOfDay(ClockHours(window[1]), ClockMinutes(window[1]), 0)
        end_time == SecondsOfDay(ClockHours(window[2]), ClockMinutes(window[2]), 0)
        current_time == SecondsOfDay(now.hour, now.minute, now.second)
    IN start_time <= current_time /\ current_time <= end_time

\* the loop over time_ranges from its k-th element: "match" at the first
\* window holding the time, "ValueError" at the first window that is no time
\* of day, "none" when the loop ends
RECURSIVE TimeLoop(_, _, _)
TimeLoop(time_ranges, k, now) ==
    IF k > Len(time_ranges) THEN "none"
    ELSE LET w == time_ranges[k]
         IN IF ~TimeIsValid(ClockHours(w[1]), ClockMinutes(w[1])) THEN "ValueError"
            ELSE IF ~TimeIsValid(ClockHours(w[2]), ClockMinutes(w[2])) THEN "ValueError"
            ELSE IF TimeInWindow(w, now) THEN "match"
            ELSE TimeLoop(time_ranges, k + 1, now)

\* DateInRange with the two boundary tests joined by "and" in both branches
DateInRange_AlwaysAnd(date_range, current_month, current_day_of_month) ==
    /\ (\/ current_month > date_range.start_month
        \/ (/\ current_month = date_range.start_month
            /\ current_day_of_month >= date_range.start_day))
    /\ (\/ current_month < date_range.end_month
        \/ (/\ current_month = date_range.end_month
            /\ current_day_of_month <= date_range.end_day))

\* DateInRange with the two boundary tests joined by "or" in both branches
DateInRange_AlwaysOr(date_range, current_month, current_day_of_month) ==
    \/ (\/ current_month > date_range.start_month
        \/ (/\ current_month = date_range.start_month
            /\ current_day_of_month >= date_range.start_day))
    \/ (\/ current_month < date_range.end_month
        \/ (/\ current_month = date_range.end_month
            /\ current_day_of_month <= date_range.end_day))

\* the test of one date range
DateInRange(date_range, current_month, current_day_of_month) ==
    LET start_day == date_range.start_day
        start_month == date_range.start_month
        end_day == date_range.end_day
        end_month == date_range.end_month
    IN IF start_month > end_month
       THEN \/ (\/ current_month > start_month
                \/ (current_month = start_month /\ current_day_of_month >= start_day))
            \/ (\/ current_month < end_month
                \/ (current_month = end_month /\ current_day_of_month <= end_day))
       ELSE /\ (\/ current_month > start_month
                \/ (current_month = start_month /\ current_day_of_month >= start_day))
            /\ (\/ current_month < end_month
                \/ (current_month = end_month /\ current_day_of_month <= end_day))

\* the loop over date_ranges
DateLoop(date_ranges, now) ==
    \E k \in 1..Len(date_ranges) : DateInRange(date_ranges[k], now.month, now.day)

\* lines 219-278: the three gates and the value returned, or the ValueError
\* of a time range that is no time of day
GateOutcome(parsed_restriction, current_datetime) ==
    LET day_match ==
            \/ Len(parsed_restriction.days) = 0
            \/ \E k \in 1..Len(parsed_restriction.days) :
                   parsed_restriction.days[k] = current_datetime.weekday
        time_loop == TimeLoop(parsed_restriction.time_ranges, 1, current_datetime)
        time_match ==
            IF Len(parsed_restriction.time_ranges) > 0 THEN time_loop = "match" ELSE TRUE
        date_match ==
            IF Len(parsed_restriction.date_ranges) > 0
            THEN DateLoop(parsed_restriction.date_ranges, current_datetime) ELSE TRUE
        restriction_applies == day_match /\ time_match /\ date_match
    IN IF time_loop = "ValueError" THEN [error |-> "ValueError", value |-> FALSE]
       ELSE [error |-> "none",
             value |-> ~(restriction_applies /\ parsed_restriction.is_restricted)]

\* is_parking_allowed without the all_time test of lines 215-217
is_parking_allowed_NoAllTimeTest(parsed_restriction, current_datetime) ==
    GateOutcome(parsed_restriction, current_datetime)

\* the outcome of the call: the exception raised, if any, and the value returned
is_parking_allowed(parsed_restriction, current_datetime) ==
    IF parsed_restriction.all_time THEN [error |-> "none", value |-> FALSE]
    ELSE GateOutcome(parsed_restriction, current_datetime)

\* is_parking_allowed consuming the time ranges it walks through
is_parking_allowed_leaves_Consumed(parsed_restriction, current_datetime) ==
    [parsed_restriction EXCEPT !.time_ranges = <<>>]

\* the dictionary after is_parking_allowed(parsed_restriction, current_datetime):
\* the function reads its entries and stores into none of them
is_parking_allowed_leaves(parsed_restriction, current_datetime) ==
    parsed_restriction

(***************************************************************************)
(* parse_batch_restrictions                                                *)
(*                                                                         *)
(* A DataFrame is the sequence of its rows, a row a record of its columns. *)
(* A FLECHE_PAN value is <<n>> for the number n and <<>> when missing.     *)
(***************************************************************************)
NaN == "NaN"

\* the dictionary given to Series.map
arrow_mapping ==
    << <<0, "both_sides">>, <<1, "up">>, <<2, "left">>, <<3, "right">> >>

\* Series.map(arrow_mapping) on one value: the entry of the key equal to it,
\* NaN for a value that is no key and for a missing value
MapArrow(value) ==
    IF value # <<>> /\ \E k \in DOMAIN arrow_mapping : arrow_mapping[k][1] = value[1]
    THEN arrow_mapping[CHOOSE k \in DOMAIN arrow_mapping : arrow_mapping[k][1] = value[1]][2]
    ELSE NaN

\* the mapped column left as it is
fillna_Skipped(value, filler) == value

\* Series.fillna(filler) on one value
fillna(value, filler) == IF value = NaN THEN filler ELSE value

\* the DataFrame parse_batch_restrictions returns, which is batch_df itself
\* with five columns added
parse_batch_restrictions(df) ==
    [k \in DOMAIN df |->
        LET parsed == parse_restriction(df[k].DESCRIPTION_RPA)
        IN [DESCRIPTION_RPA |-> df[k].DESCRIPTION_RPA,
            FLECHE_PAN |-> df[k].FLECHE_PAN,
            parsed_restriction |-> parsed,
            is_restricted |-> parsed.is_restricted,
            is_all_time |-> parsed.all_time,
            is_paid |-> (parsed.type = "$"),
            arrow_direction |-> fillna(MapArrow(df[k].FLECHE_PAN), "both_sides")]]

(***************************************************************************)
(* create_street_interval (geo/osm.py)                                     *)
(*                                                                         *)
(* A point is <<x, y>>, a LineString the sequence of its points.           *)
(* Coordinates are whole numbers of ten-thousandths, the offset of the     *)
(* fallback interval.  The arithmetic below is the exact one; it stays in  *)
(* whole numbers on segments parallel to an axis, which is what the        *)
(* streets of SpecIntervals are made of.  Distances are compared by their  *)
(* squares.  Index k here is index k - 1 of the Python list.               *)
(***************************************************************************)
PerUnit == 10000

Abs(n) == IF n < 0 THEN 0 - n ELSE n

Max(a, b) == IF a >= b THEN a ELSE b

\* (p - a) . (b - a)
Dot(p, a, b) == (p[1] - a[1]) * (b[1] - a[1]) + (p[2] - a[2]) * (b[2] - a[2])

\* the square of the length of a-b
Length2(a, b) == Dot(b, a, b)

\* the length of a-b, a segment parallel to an axis
SegmentLength(a, b) == Abs(b[1] - a[1]) + Abs(b[2] - a[2])

\* Point.distance(LineString([a, b])), squared
Distance2(p, a, b) ==
    IF Dot(p, a, b) <= 0 THEN Length2(p, a)
    ELSE IF Dot(p, a, b) >= Length2(a, b) THEN Length2(p, b)
    ELSE Length2(p, a) - (Dot(p, a, b) * Dot(p, a, b)) \div Length2(a, b)

\* the arc length along a-b of the point of a-b nearest to p
SegmentMeasure(p, a, b) ==
    IF Dot(p, a, b) <= 0 THEN 0
    ELSE IF Dot(p, a, b) >= Length2(a, b) THEN SegmentLength(a, b)
    ELSE Dot(p, a, b) \div SegmentLength(a, b)

\* LineString.length
RECURSIVE LineLength(_)
LineLength(coords) ==
    IF Len(coords) < 2 THEN 0
    ELSE SegmentLength(coords[1], coords[2]) + LineLength(Tail(coords))

\* LineString.project(p): the arc length of the point of the line nearest to
\* p, on the first segment at the least distance.  best is <<>> before the
\* first segment and <<distance squared, arc length>> after.
RECURSIVE ProjectFrom(_, _, _, _, _)
ProjectFrom(coords, p, k, start, best) ==
    IF k >= Len(coords) THEN best[2]
    ELSE LET d == Distance2(p, coords[k], coords[k + 1])
             m == start + SegmentMeasure(p, coords[k], coords[k + 1])
             next == start + SegmentLength(coords[k], coords[k + 1])
         IN IF best = <<>> \/ d < best[1]
            THEN ProjectFrom(coords, p, k + 1, next, <<d, m>>)
            ELSE ProjectFrom(coords, p, k + 1, next, best)

project(coords, p) == ProjectFrom(coords, p, 1, 0, <<>>)

\* the point at arc length d >= 0, counted from vertex k on
RECURSIVE InterpolateFrom(_, _, _)
InterpolateFrom(coords, k, d) ==
    IF k >= Len(coords) THEN coords[Len(coords)]
    ELSE LET a == coords[k]
             b == coords[k + 1]
             l == SegmentLength(a, b)
         IN IF d < l
            THEN <<a[1] + ((b[1] - a[1]) * d) \div l, a[2] + ((b[2] - a[2]) * d) \div l>>
            ELSE InterpolateFrom(coords, k + 1, d - l)

\* LineString.interpolate(d): the point at arc length d, the end of the line
\* beyond its length; a negative d counts back from the end
interpolate(coords, d) ==
    IF d >= 0 THEN InterpolateFrom(coords, 1, d)
    ELSE InterpolateFrom(coords, 1, Max(0, LineLength(coords) + d))

\* the sign itself taken for the nearest point of the street
nearest_point_Unprojected(street_line, sign_point) == sign_point

\* nearest_point = street_line.interpolate(street_line.project(sign_point))
nearest_point(street_line, sign_point) ==
    interpolate(street_line, project(street_line, sign_point))

\* 'distance <= min_distance': the last of the nearest segments wins
Closer_OrEqual(distance, min_distance) ==
    min_distance = <<>> \/ distance <= min_distance[1]

\* distance < min_distance, with <<>> for float('inf')
Closer(distance, min_distance) ==
    min_distance = <<>> \/ distance < min_distance[1]

\* the loop over the segments of the street
RECURSIVE SegmentLoop(_, _, _, _, _)
SegmentLoop(coords, nearest, i, min_distance, segment_index) ==
    IF i >= Len(coords) THEN segment_index
    ELSE LET distance == Distance2(nearest, coords[i], coords[i + 1])
         IN IF Closer(distance, min_distance)
            THEN SegmentLoop(coords, nearest, i + 1, <<distance>>, i)
            ELSE SegmentLoop(coords, nearest, i + 1, min_distance, segment_index)

\* segment_index after the loop
SegmentIndex(coords, nearest) == SegmentLoop(coords, nearest, 1, <<>>, 1)

\* the 'up' interval without max(0, ...)
UpInterval_NoMax(street_line, sign_point, interval_length) ==
    LET midpoint == interpolate(street_line,
                        project(street_line, sign_point) + interval_length \div 2)
        midpoint_neg == interpolate(street_line,
                        project(street_line, sign_point) - interval_length \div 2)
    IN <<midpoint_neg, midpoint>>

\* the 'up' interval
UpInterval(street_line, sign_point, interval_length) ==
    LET midpoint == interpolate(street_line,
                        project(street_line, sign_point) + interval_length \div 2)
        midpoint_neg == interpolate(street_line,
                        Max(0, project(street_line, sign_point) - interval_length \div 2))
    IN <<midpoint_neg, midpoint>>

\* 0.0001, in ten-thousandths
Offset == 1

\* 'both_sides' giving interval_after before interval_before
create_street_interval_AfterFirst(street_line, sign_point, direction, interval_length) ==
    LET nearest == nearest_point(street_line, sign_point)
        segment_index == SegmentIndex(street_line, nearest)
        start == street_line[segment_index]
        end == street_line[segment_index + 1]
    IN CASE direction = "both_sides" -> << <<nearest, end>>, <<start, nearest>> >>
         [] direction = "left" -> << <<start, nearest>> >>
         [] direction = "right" -> << <<nearest, end>> >>
         [] direction = "up" -> << UpInterval(street_line, sign_point, interval_length) >>
         [] OTHER -> << << <<nearest[1] - Offset, nearest[2]>>,
                           <<nearest[1] + Offset, nearest[2]>> >> >>

\* create_street_interval: the list of intervals, each the two points of its
\* LineString
create_street_interval(street_line, sign_point, direction, interval_length) ==
    LET nearest == nearest_point(street_line, sign_point)
        segment_index == SegmentIndex(street_line, nearest)
        start == street_line[segment_index]
        end == street_line[segment_index + 1]
    IN CASE direction = "both_sides" -> << <<start, nearest>>, <<nearest, end>> >>
         [] direction = "left" -> << <<start, nearest>> >>
         [] direction = "right" -> << <<nearest, end>> >>
         [] direction = "up" -> << UpInterval(street_line, sign_point, interval_length) >>
         [] OTHER -> << << <<nearest[1] - Offset, nearest[2]>>,
                           <<nearest[1] + Offset, nearest[2]>> >> >>

(***************************************************************************)
(* get_nearest_street (geo/osm.py)                                         *)
(*                                                                         *)
(* responses[k] is what the k-th request to the Overpass API comes to:     *)
(* error is "none" when it gives a decoded answer, whose elements are then *)
(* in elements, and the exception raised otherwise.  An absent street is   *)
(* <<>> and a street d is <<d>>.                                           *)
(***************************************************************************)
retry_count == 3

\* Point.distance(LineString(coords)), squared
RECURSIVE LineDistance2(_, _)
LineDistance2(p, coords) ==
    IF Len(coords) = 2 THEN Distance2(p, coords[1], coords[2])
    ELSE LET d == Distance2(p, coords[1], coords[2])
             rest == LineDistance2(p, Tail(coords))
         IN IF d <= rest THEN d ELSE rest

\* the streets list built from the elements of an answer
StreetsOf(elements, lat, lon) ==
    LET kept == SelectSeq(elements, LAMBDA element : Len(element.geometry) >= 2)
    IN [k \in DOMAIN kept |->
          [id |-> kept[k].id, name |-> kept[k].name, highway |-> kept[k].highway,
           geometry |-> kept[k].geometry,
           distance2 |-> LineDistance2(<<lon, lat>>, kept[k].geometry)]]

\* min(streets, key=lambda x: x['distance']): the first of the nearest
NearestOf(streets) ==
    streets[CHOOSE k \in DOMAIN streets :
              /\ \A j \in DOMAIN streets : streets[k].distance2 <= streets[j].distance2
              /\ \A j \in 1..(k - 1) : streets[j].distance2 > streets[k].distance2]

\* the try block came to one of its return statements
Answered_WithStreet(response) ==
    /\ response.error = "none"
    /\ \E k \in DOMAIN response.elements : Len(response.elements[k].geometry) >= 2

\* the try block came to one of its return statements: no exception
Answered(response) == response.error = "none"

\* the loop over the attempts, from attempt on: the street returned and the
\* number of requests sent
RECURSIVE NearestStreetFrom(_, _, _, _)
NearestStreetFrom(lat, lon, responses, attempt) ==
    IF attempt >= retry_count THEN [street |-> <<>>, requests |-> attempt]
    ELSE LET response == responses[attempt + 1]
         IN IF response.error # "none"
            THEN IF attempt < retry_count - 1
                 THEN NearestStreetFrom(lat, lon, responses, attempt + 1)
                 ELSE [street |-> <<>>, requests |-> attempt + 1]
            ELSE LET streets == StreetsOf(response.elements, lat, lon)
                 IN IF streets # <<>>
                    THEN [street |-> <<NearestOf(streets)>>, requests |-> attempt + 1]
                    ELSE [street |-> <<>>, requests |-> attempt + 1]

get_nearest_street(lat, lon, responses) == NearestStreetFrom(lat, lon, responses, 0)

(***************************************************************************)
(* _process_sign_intervals (db/operations.py)                              *)
(***************************************************************************)
\* the dictionaries made of the intervals of a sign
IntervalDicts(sign_id, street, intervals) ==
    LET kept == SelectSeq(intervals, LAMBDA interval : Len(interval) >= 2)
    IN [k \in DOMAIN kept |->
          [sign_id |-> sign_id,
           street_name |-> street.name,
           geometry |-> kept[k],
           start_lat |-> kept[k][1][2],
           start_lon |-> kept[k][1][1],
           end_lat |-> kept[k][Len(kept[k])][2],
           end_lon |-> kept[k][Len(kept[k])][1]]]

\* a sign without a street given the fallback interval around itself
process_sign_intervals_Fallback(sign_data, street) ==
    LET sign_point == <<sign_data.lon, sign_data.lat>>
    IN IF street = <<>>
       THEN [intervals |-> <<>>,
             result |-> IntervalDicts(sign_data.sign_id, [name |-> "Unknown"],
                            << << <<sign_point[1] - Offset, sign_point[2]>>,
                                  <<sign_point[1] + Offset, sign_point[2]>> >> >>)]
       ELSE LET intervals == create_street_interval(street[1].geometry, sign_point,
                                 sign_data.direction, 50 * PerUnit)
            IN [intervals |-> intervals,
                result |-> IntervalDicts(sign_data.sign_id, street[1], intervals)]

\* _process_sign_intervals after the lookup: the intervals the generator
\* returned, <<>> when it was not called, and the list returned
process_sign_intervals(sign_data, street) ==
    LET sign_point == <<sign_data.lon, sign_data.lat>>
    IN IF street = <<>>
       THEN [intervals |-> <<>>, result |-> <<>>]
       ELSE LET intervals == create_street_interval(street[1].geometry, sign_point,
                                 sign_data.direction, 50 * PerUnit)
            IN [intervals |-> intervals,
                result |-> IntervalDicts(sign_data.sign_id, street[1], intervals)]

(***************************************************************************)
(* geo/distance.py                                                         *)
(*                                                                         *)
(* Latitudes and longitudes are whole degrees; distances and the radius    *)
(* are whole numbers of metres.  The haversine formula is taken where it   *)
(* comes to a multiple of the length of one degree of a great circle:      *)
(* between two points of one meridian, between two points of the equator,  *)
(* and between a pole and any point.                                       *)
(***************************************************************************)
\* 6371 km * pi / 180, in metres
MetresPerDegree == 111195

\* 2 * asin(sqrt(sin(d/2)**2)) in degrees, for a difference d of at most a
\* turn: the sine is squared, so the sign of d is lost, and past half a turn
\* the arc comes back
ArcOfDifference(d) == IF Abs(d) <= 180 THEN Abs(d) ELSE 360 - Abs(d)

\* the central angle c of the formula, in degrees
CentralAngle(lat1, lat2, dlat, dlon) ==
    CASE dlon = 0 -> ArcOfDifference(dlat)
      [] dlon # 0 /\ (Abs(lat1) = 90 \/ Abs(lat2) = 90) -> ArcOfDifference(dlat)
      [] dlon # 0 /\ lat1 = 0 /\ lat2 = 0 -> ArcOfDifference(dlon)

\* the differences kept with their sign: c = dlat or c = dlon
haversine_distance_Signed(lat1, lon1, lat2, lon2) ==
    LET dlon == lon2 - lon1
        dlat == lat2 - lat1
    IN  MetresPerDegree * (IF dlon = 0 \/ Abs(lat1) = 90 \/ Abs(lat2) = 90 THEN dlat ELSE dlon)

haversine_distance(lat1, lon1, lat2, lon2) ==
    LET dlon == lon2 - lon1
        dlat == lat2 - lat1
    IN  MetresPerDegree * CentralAngle(lat1, lat2, dlat, dlon)

\* 'distance < radius_km': the boundary left out
WithinRadius_Strict(distance, radius_km) == distance < radius_km

\* distance <= radius_km
WithinRadius(distance, radius_km) == distance <= radius_km

filter_coordinates_by_distance(coordinates, center_lat, center_lon, radius_km) ==
    SelectSeq(coordinates,
              LAMBDA c : WithinRadius(haversine_distance(center_lat, center_lon, c[1], c[2]),
                                      radius_km))

(***************************************************************************)
(* The calls: parse_restriction on a description, then is_parking_allowed  *)
(* on the rule it returned, at one timestamp out of a set.  Every          *)
(* specification below calls the functions of one family and leaves the    *)
(* variables of the others as they start; pc says how far the calls went.  *)
(***************************************************************************)
VARIABLES
    desc,      \* the description given to parse_restriction
    rule,      \* the dictionary parse_restriction returned
    at,        \* the timestamp of the last is_parking_allowed call
    allowed,   \* the value that call returned
    error,     \* the exception that call raised, or "none"
    pc,        \* "start", then "parsed", "evaluated", "built", "done" or "filtered"
    calls,     \* the dictionaries the parse_restriction calls of a caller returned
    street_line,      \* the arguments of create_street_interval
    sign_point,
    direction,
    interval_length,
    intervals,        \* the list create_street_interval returned
    batch_df,         \* the rows of the DataFrame of parse_batch_restrictions
    sign_data,        \* the argument of _process_sign_intervals
    responses,        \* what the requests of get_nearest_street come to, in order
    street,           \* the street get_nearest_street returned
    result,           \* the list _process_sign_intervals returned
    coordinates,      \* the arguments of filter_coordinates_by_distance
    center_lat,
    center_lon,
    radius_km,
    filtered,         \* the list filter_coordinates_by_distance returned
    point1,           \* the two coordinates haversine_distance is called with
    point2,
    measured,         \* the distances the haversine_distance calls returned
    analysis_tasks,   \* the dictionary of tasks of api/endpoints.py, by task id
    threads,          \* where each background_analysis thread is, and its locals
    area_summaries,   \* the rows of the table area_summaries
    response,         \* the last task request, and what it answered
    lookup            \* a call of get_nearest_street, request by request

parser_vars == <<desc, rule, at, allowed, error, pc>>

geo_vars == <<street_line, sign_point, direction, interval_length, intervals>>

sign_vars == <<sign_data, responses, street, result>>

distance_vars == <<coordinates, center_lat, center_lon, radius_km, filtered>>

haversine_vars == <<point1, point2, measured>>

task_vars == <<analysis_tasks, threads, area_summaries, response>>

\* the state of the remaining functions of the package
rest_vars == <<haversine_vars, task_vars, lookup>>

\* the state of the other functions of the package
other_vars == <<calls, geo_vars, batch_df, sign_vars, distance_vars, rest_vars>>

vars == <<parser_vars, other_vars>>

\* no other function of the package has been called
\* create_street_interval has not been called
GeoIdle ==
    /\ street_line = <<>>
    /\ sign_point = <<0, 0>>
    /\ direction = "both_sides"
    /\ interval_length = 50 * PerUnit
    /\ intervals = <<>>

\* _process_sign_intervals has not been called
SignIdle ==
    /\ sign_data = [sign_id |-> 0, lat |-> 0, lon |-> 0, direction |-> "both_sides"]
    /\ responses = <<>>
    /\ street = <<>>
    /\ result = <<>>

\* filter_coordinates_by_distance has not been called
DistanceIdle ==
    /\ coordinates = <<>>
    /\ center_lat = 0
    /\ center_lon = 0
    /\ radius_km = 0
    /\ filtered = <<>>

\* haversine_distance has not been called by itself
HaversineIdle ==
    /\ point1 = <<0, 0>>
    /\ point2 = <<0, 0>>
    /\ measured = [forward |-> <<>>, backward |-> <<>>, same |-> <<>>]

\* a dictionary without keys
NoTasks == [t \in {} |-> t]

\* the value of response before the first request
NoResponse ==
    [endpoint |-> "none", task_id |-> "none", args |-> <<0, 0>>, code |-> 0,
     status |-> "none",
     progress |-> 0, results |-> <<>>, page |-> 0, page_size |-> 0,
     total_intervals |-> 0, total_pages |-> 0, intervals |-> <<>>]

\* no analysis has been started and no task request made
TasksIdle ==
    /\ analysis_tasks = NoTasks
    /\ threads = NoTasks
    /\ area_summaries = <<>>
    /\ response = NoResponse

\* get_nearest_street has not been called by itself
LookupIdle ==
    lookup = [lat |-> 0, lon |-> 0, attempt |-> 0, sent |-> <<>>, returned |-> FALSE,
              street |-> <<>>]

\* none of the remaining functions has been called
RestIdle ==
    /\ HaversineIdle
    /\ TasksIdle
    /\ LookupIdle

OthersIdle ==
    /\ calls = <<>>
    /\ GeoIdle
    /\ batch_df = <<>>
    /\ SignIdle
    /\ DistanceIdle
    /\ RestIdle

Timestamp(weekday, month, day, hour, minute, second) ==
    [weekday |-> weekday, month |-> month, day |-> day,
     hour |-> hour, minute |-> minute, second |-> second]

\* the value of at before the first is_parking_allowed call
NoTimestamp == Timestamp("Monday", 1, 1, 0, 0, 0)

\* neither parse_restriction nor is_parking_allowed has been called
ParserIdle ==
    /\ desc = None
    /\ rule = EmptyResult(None)
    /\ at = NoTimestamp
    /\ allowed = FALSE
    /\ error = "none"

\* result = parse_restriction(desc)
Parse ==
    /\ pc = "start"
    /\ rule' = parse_restriction(desc)
    /\ pc' = "parsed"
    /\ UNCHANGED <<desc, at, allowed, error, other_vars>>

\* is_parking_allowed(result, t)
Evaluate(t) ==
    /\ pc = "parsed"
    /\ at' = t
    /\ allowed' = is_parking_allowed(rule, t).value
    /\ error' = is_parking_allowed(rule, t).error
    /\ pc' = "evaluated"
    /\ UNCHANGED <<desc, rule, other_vars>>

\* the finite sequences over S of length at most n
SeqsUpTo(S, n) == UNION {[1..k -> S] : k \in 0..n}

(***************************************************************************)
(* SpecEval: is_parking_allowed on rules given directly.                   *)
(***************************************************************************)
MaxWindows == 2
MaxRanges == 2

DateRange(start_day, start_month, end_day, end_month) ==
    [start_day |-> start_day, start_month |-> start_month,
     end_day |-> end_day, end_month |-> end_month]

\* the time ranges 9h00-18h00, the overnight 22h30-6h, and 25h00-26h00, which
\* is no time of day
Window_9h00_18h00 == <<(<<"9", "h", "0", "0">>), (<<"1", "8", "h", "0", "0">>)>>
Window_22h30_6h == <<(<<"2", "2", "h", "3", "0">>), (<<"6", "h">>)>>
Window_25h00_26h00 == <<(<<"2", "5", "h", "0", "0">>), (<<"2", "6", "h", "0", "0">>)>>

EvalWindows == { Window_9h00_18h00, Window_22h30_6h, Window_25h00_26h00 }

\* 1 April to 1 November, and 15 November to 15 March across the new year
EvalDateRanges == { DateRange(1, 4, 1, 11), DateRange(15, 11, 15, 3) }

EvalDays ==
    { <<>>, SubSeq(Weekdays, 1, 5), <<"Saturday", "Sunday">> }

EvalRules ==
    { [type |-> IF r THEN "P" ELSE "$", is_restricted |-> r, time_ranges |-> tr,
       days |-> ds, date_ranges |-> dr, special |-> None, all_time |-> a,
       raw_description |-> None] :
        r \in BOOLEAN, a \in BOOLEAN, ds \in EvalDays,
        tr \in SeqsUpTo(EvalWindows, MaxWindows),
        dr \in SeqsUpTo(EvalDateRanges, MaxRanges) }

EvalTimestamps ==
    { Timestamp(wd, md[1], md[2], hms[1], hms[2], hms[3]) :
        wd \in {"Tuesday", "Saturday"},
        md \in { <<1, 10>>, <<4, 1>>, <<10, 10>>, <<11, 15>> },
        hms \in { <<8, 59, 59>>, <<9, 0, 0>>, <<18, 0, 0>>, <<18, 0, 1>>, <<23, 0, 0>> } }

InitEval ==
    /\ desc = None
    /\ rule \in EvalRules
    /\ at = NoTimestamp
    /\ allowed = FALSE
    /\ error = "none"
    /\ pc = "parsed"
    /\ OthersIdle

NextEval == \E t \in EvalTimestamps : Evaluate(t)

SpecEval == InitEval /\ [][NextEval]_vars

\* ---- the gates as the specification words them, for the rules of SpecEval ----

\* (a, b, c) <= (x, y, z) in the order of times of day
ClockLeq(a, x) ==
    \/ a[1] < x[1]
    \/ (a[1] = x[1] /\ a[2] < x[2])
    \/ (a[1] = x[1] /\ a[2] = x[2] /\ a[3] <= x[3])

\* the start and end of each time range of EvalWindows as <<hour, minute, second>>
WindowStart(w) ==
    CASE w = Window_9h00_18h00 -> <<9, 0, 0>>
      [] w = Window_22h30_6h -> <<22, 30, 0>>
      [] w = Window_25h00_26h00 -> <<25, 0, 0>>

WindowEnd(w) ==
    CASE w = Window_9h00_18h00 -> <<18, 0, 0>>
      [] w = Window_22h30_6h -> <<6, 0, 0>>
      [] w = Window_25h00_26h00 -> <<26, 0, 0>>

IsTimeOfDay(c) == c[1] \in 0..23 /\ c[2] \in 0..59 /\ c[3] \in 0..59

\* the window is a pair of times of day and t lies in it, both ends included
InWindow(w, t) ==
    /\ IsTimeOfDay(WindowStart(w)) /\ IsTimeOfDay(WindowEnd(w))
    /\ ClockLeq(WindowStart(w), <<t.hour, t.minute, t.second>>)
    /\ ClockLeq(<<t.hour, t.minute, t.second>>, WindowEnd(w))

\* the place of a (month, day) in the year
DayOfYear(month, day) == month * 100 + day

OnOrAfterStart(r, t) == DayOfYear(t.month, t.day) >= DayOfYear(r.start_month, r.start_day)

OnOrBeforeEnd(r, t) == DayOfYear(t.month, t.day) <= DayOfYear(r.end_month, r.end_day)

\* a range that wraps the year matches on either side, another one in between
InDateRange(r, t) ==
    IF r.start_month > r.end_month
    THEN OnOrAfterStart(r, t) \/ OnOrBeforeEnd(r, t)
    ELSE OnOrAfterStart(r, t) /\ OnOrBeforeEnd(r, t)

DayGate(r, t) == r.days = <<>> \/ \E k \in DOMAIN r.days : r.days[k] = t.weekday

TimeGate(r, t) ==
    r.time_ranges = <<>> \/ \E k \in DOMAIN r.time_ranges : InWindow(r.time_ranges[k], t)

DateGate(r, t) ==
    r.date_ranges = <<>> \/ \E k \in DOMAIN r.date_ranges : InDateRange(r.date_ranges[k], t)

\* C1: for a rule that is not always restricted, a call of is_parking_allowed
\* that returns gives False exactly when the rule is restricted and the day
\* gate, the time gate and the date gate all hold, and True in every other case.
C1_BlockedIffRestrictedAndGates ==
    (pc = "evaluated" /\ ~rule.all_time /\ error = "none") =>
        (allowed = ~(/\ rule.is_restricted
                     /\ DayGate(rule, at) /\ TimeGate(rule, at) /\ DateGate(rule, at)))

\* a restricted rule with all three gates set is blocked: 18:00:00 is in 9h00-18h00
C1_Witness ==
    /\ pc = "evaluated" /\ ~rule.all_time /\ error = "none" /\ ~allowed
    /\ rule.days # <<>> /\ rule.date_ranges # <<>>
    /\ rule.time_ranges = <<Window_9h00_18h00>>
    /\ <<at.hour, at.minute, at.second>> = <<18, 0, 0>>

\* C2: a rule with all_time set is never allowed, whatever its type, its
\* is_restricted flag, its time ranges, days and date ranges are.
C2_AllTimeNeverAllowed ==
    (pc = "evaluated" /\ rule.all_time) => (allowed = FALSE /\ error = "none")

\* an all-time rule that is not restricted and whose time gate does not hold
C2_Witness ==
    /\ pc = "evaluated" /\ rule.all_time /\ ~rule.is_restricted /\ ~allowed
    /\ rule.time_ranges # <<>> /\ ~TimeGate(rule, at)
    /\ rule.days # <<>> /\ rule.date_ranges # <<>>

(***************************************************************************)
(* SpecDate: is_parking_allowed on restricted rules with one date range    *)
(* and no other gate, at every date of the same grid of months and days.   *)
(***************************************************************************)
MaxDay == 4

DateGrid == { <<month, day>> : month \in 1..12, day \in 1..MaxDay }

DateRules ==
    { [type |-> "P", is_restricted |-> TRUE, time_ranges |-> <<>>, days |-> <<>>,
       date_ranges |-> <<DateRange(s[2], s[1], e[2], e[1])>>, special |-> None,
       all_time |-> FALSE, raw_description |-> None] : s \in DateGrid, e \in DateGrid }

DateTimestamps == { Timestamp("Monday", md[1], md[2], 12, 0, 0) : md \in DateGrid }

InitDate ==
    /\ desc = None
    /\ rule \in DateRules
    /\ at = NoTimestamp
    /\ allowed = FALSE
    /\ error = "none"
    /\ pc = "parsed"
    /\ OthersIdle

NextDate == \E t \in DateTimestamps : Evaluate(t)

SpecDate == InitDate /\ [][NextDate]_vars

\* C4: a date range whose start month is greater than its end month matches a
\* date exactly when the date is on or after the start or on or before the
\* end; a date strictly after the end and strictly before the start does not
\* match.  (The rule is restricted with no other gate: blocked = matched.)
C4_WrappingRangeIsEitherSide ==
    LET r == rule.date_ranges[1]
    IN (pc = "evaluated" /\ r.start_month > r.end_month) =>
          /\ ~allowed <=> (OnOrAfterStart(r, at) \/ OnOrBeforeEnd(r, at))
          /\ (/\ DayOfYear(at.month, at.day) > DayOfYear(r.end_month, r.end_day)
              /\ DayOfYear(at.month, at.day) < DayOfYear(r.start_month, r.start_day))
               => allowed

\* a date in the middle of the year, in the month the range ends in, is allowed
C4_Witness ==
    LET r == rule.date_ranges[1]
    IN /\ pc = "evaluated" /\ r.start_month > r.end_month /\ allowed
       /\ at.month = r.end_month /\ at.day > r.end_day

\* C5: a date range whose start month is not greater than its end month
\* matches a date exactly when the date is on or after the start and on or
\* before the end, both boundary days included; with equal months and the
\* start day after the end day it matches no date.
C5_PlainRangeIsBetween ==
    LET r == rule.date_ranges[1]
    IN (pc = "evaluated" /\ r.start_month <= r.end_month) =>
          /\ ~allowed <=> (OnOrAfterStart(r, at) /\ OnOrBeforeEnd(r, at))
          /\ (<<at.month, at.day>> = <<r.start_month, r.start_day>>
                /\ DayOfYear(r.start_month, r.start_day) <= DayOfYear(r.end_month, r.end_day))
               => ~allowed
          /\ (<<at.month, at.day>> = <<r.end_month, r.end_day>>
                /\ DayOfYear(r.start_month, r.start_day) <= DayOfYear(r.end_month, r.end_day))
               => ~allowed
          /\ (r.start_month = r.end_month /\ r.start_day > r.end_day) => allowed

\* equal months, start day after end day, asked in that month on the start day
C5_Witness ==
    LET r == rule.date_ranges[1]
    IN /\ pc = "evaluated" /\ allowed
       /\ r.start_month = r.end_month /\ r.start_day > r.end_day
       /\ at.month = r.start_month /\ at.day = r.start_day

(***************************************************************************)
(* SpecParse: parse_restriction on descriptions made of a few fragments    *)
(* joined by single spaces, then is_parking_allowed on the rule returned.  *)
(***************************************************************************)
MaxFrags == 2

\* ' '.join(frags)
RECURSIVE Join(_)
Join(frags) ==
    IF frags = <<>> THEN <<>>
    ELSE IF Len(frags) = 1 THEN frags[1]
    ELSE frags[1] \o <<" ">> \o Join(Tail(frags))

\* None, the empty string, and the joins of at most MaxFrags fragments of V
Descriptions(V) == {None} \cup { Join(frags) : frags \in SeqsUpTo(V, MaxFrags) }

\* fragments the parser recognises: the two markers, the paid signatures, the
\* all-time phrase, time ranges, a day range, a date range, a special condition
MarkerFragments ==
    { <<"\\", "P">>,
      <<"\\", "A">>,
      <<"P", "A", "R", "C", "O", "M", "E", "T", "R", "E">>,
      <<"P", " ", "6", "0", " ", "m", "i", "n">>,
      <<"P", " ", "2", "h">>,
      <<"E", "N", " ", "T", "O", "U", "T", " ", "T", "E", "M", "P", "S">>,
      <<"9", "h", "0", "0", "-", "1", "8", "h", "0", "0">>,
      <<"2", "5", "h", "0", "0", "-", "2", "6", "h", "0", "0">>,
      <<"L", "U", "N", " ", "A", "U", " ", "V", "E", "N">>,
      <<"1", " ", "A", "V", "R", "I", "L", " ", "A", "U", " ", "1", " ", "N", "O", "V">>,
      <<"T", "A", "X", "I">> }

\* fragments that hold no marker, alone or joined: a street word, a lone P, a
\* month without a date, a word that only starts like a day, a lone number
PlainFragments ==
    { <<"R", "U", "E">>,
      <<"P">>,
      <<"M", "A", "R", "S">>,
      <<"L", "U", "N", "E">>,
      <<"1">> }

ParseTimestamps ==
    { Timestamp(wd, md[1], md[2], hm[1], hm[2], 0) :
        wd \in {"Tuesday", "Saturday"}, md \in { <<1, 10>>, <<10, 10>> },
        hm \in { <<8, 0>>, <<12, 0>> } }

InitFrom(descriptions) ==
    /\ desc \in descriptions
    /\ rule = EmptyResult(None)
    /\ at = NoTimestamp
    /\ allowed = FALSE
    /\ error = "none"
    /\ pc = "start"
    /\ OthersIdle

InitParse == InitFrom(Descriptions(MarkerFragments \cup PlainFragments))

Next == Parse \/ \E t \in ParseTimestamps : Evaluate(t)

SpecParse == InitParse /\ [][Next]_vars

Spec == SpecParse

\* ---- what the specification says of the type, on the characters of desc ----

\* s[i..j-1] is a non-empty run of characters of S
IsRun(s, i, j, S) == i < j /\ j <= Len(s) + 1 /\ \A x \in i..(j - 1) : s[x] \in S

\* the word w stands in s at position i
WordAt(s, i, w) == i + Len(w) - 1 <= Len(s) /\ SubSeq(s, i, i + Len(w) - 1) = w

\* a paid-parking signature: the word PARCOMETRE, or a P, blanks and a number
\* followed by h or by blanks and min
HasPaidSignature(s) ==
    \/ \E i \in 1..Len(s) : WordAt(s, i, <<"P", "A", "R", "C", "O", "M", "E", "T", "R", "E">>)
    \/ \E i \in 1..Len(s) :
         /\ s[i] = "P"
         /\ \E j \in (i + 2)..Len(s) :
              /\ IsRun(s, i + 1, j, Space)
              /\ \E k \in (j + 1)..Len(s) :
                   /\ IsRun(s, j, k, Digit)
                   /\ \/ s[k] = "h"
                      \/ \E l \in (k + 1)..Len(s) :
                           IsRun(s, k, l, Space) /\ WordAt(s, l, <<"m", "i", "n">>)

HasMarker(s, letter) == Len(s) >= 2 /\ s[1] = "\\" /\ s[2] = letter

\* C7: the type is P for a text that starts with the no-parking marker,
\* otherwise A for one that starts with the no-stopping marker, otherwise $ for
\* one that holds a paid-parking signature, otherwise None; is_restricted is
\* true exactly for the types P and A.
C7_TypeByPrecedence ==
    pc = "parsed" =>
        /\ rule.type = IF HasMarker(desc, "P") THEN "P"
                       ELSE IF HasMarker(desc, "A") THEN "A"
                       ELSE IF HasPaidSignature(desc) THEN "$"
                       ELSE "None"
        /\ rule.is_restricted <=> rule.type \in {"P", "A"}

\* a text with the no-parking marker in front of a paid signature is P
C7_Witness ==
    /\ pc = "parsed" /\ rule.type = "P" /\ rule.is_restricted
    /\ HasMarker(desc, "P") /\ HasPaidSignature(desc)

\* C3 as stated: whenever is_parking_allowed returns for a rule that
\* parse_restriction typed as paid, it returns True.
C3_PaidNeverBlocked ==
    (pc = "evaluated" /\ rule.type = "$" /\ error = "none") => allowed

\* C3, amended: whenever is_parking_allowed returns for a rule that
\* parse_restriction typed as paid from a text without EN TOUT TEMPS, it
\* returns True.
C3_PaidNotAllTimeNeverBlocked ==
    (/\ pc = "evaluated" /\ rule.type = "$" /\ error = "none"
     /\ ~\E i \in 1..Len(desc) :
           WordAt(desc, i, <<"E", "N", " ", "T", "O", "U", "T", " ", "T", "E", "M", "P", "S">>))
        => allowed

\* a paid rule with a time range, asked inside the range, is allowed
C3_Witness ==
    /\ pc = "evaluated" /\ rule.type = "$" /\ error = "none" /\ allowed
    /\ ~rule.all_time /\ rule.time_ranges = <<Window_9h00_18h00>> /\ at.hour = 12

\* C6: parse_restriction returns a rule for every description; for a missing
\* or empty one, and for one made of fragments that hold no marker, the rule
\* has no type, is not restricted, is not all-time, and has no time ranges, no
\* days, no date ranges and no special condition.
C6_NoMarkerGivesEmptyRule ==
    pc = "parsed" =>
        /\ rule.type \in {"P", "A", "$", "None"}
        /\ rule.raw_description = desc
        /\ desc \in Descriptions(PlainFragments) =>
             /\ rule.type = "None" /\ ~rule.is_restricted /\ ~rule.all_time
             /\ rule.time_ranges = <<>> /\ rule.days = <<>>
             /\ rule.date_ranges = <<>> /\ rule.special = None

\* MARS LUNE: a month without a date and a word that only starts like a day
C6_Witness ==
    /\ pc = "parsed"
    /\ desc = <<"M", "A", "R", "S", " ", "L", "U", "N", "E">>
    /\ rule.type = "None" /\ rule.days = <<>> /\ rule.date_ranges = <<>>

(***************************************************************************)
(* SpecDays: parse_restriction on descriptions of day names, day ranges    *)
(* and words that are neither.                                             *)
(***************************************************************************)
\* day ranges with each connector, day names and abbreviations, a word that
\* only starts like a day, two full day names around a connector (which the
\* patterns of lines 79-83 do not take for a range), a lone connector, the
\* no-parking marker
DayFragments ==
    { <<"L", "U", "N", " ", "A", "U", " ", "V", "E", "N">>,
      <<"L", "U", "N", " ", "A", " ", "S", "A", "M">>,
      <<"L", "U", "N", ".", " ", "E", "T", " ", "D", "I", "M", ".">>,
      <<"L", "U", "N">>,
      <<"M", "A", "R", ".">>,
      <<"M", "A", "R", "D", "I">>,
      <<"V", "E", "N">>,
      <<"S", "A", "M">>,
      <<"D", "I", "M", "A", "N", "C", "H", "E">>,
      <<"L", "U", "N", "E">>,
      <<"L", "U", "N", "D", "I", " ", "A", "U", " ", "V", "E", "N", "D", "R", "E", "D", "I">>,
      <<"A", "U">>,
      <<"\\", "P">> }

InitDays == InitFrom(Descriptions(DayFragments))

SpecDays == InitDays /\ [][Next]_vars

\* the word w stands in s at position i with no word character on either side
WholeWordAt(s, i, w) ==
    /\ WordAt(s, i, w)
    /\ i = 1 \/ s[i - 1] \notin WordChar
    /\ i + Len(w) > Len(s) \/ s[i + Len(w)] \notin WordChar

\* s names the day: one of its French names stands in s as a whole word
NamesDay(s, en_day) ==
    \E k \in DOMAIN day_mapping :
        /\ day_mapping[k][2] = en_day
        /\ \E i \in 1..Len(s) : WholeWordAt(s, i, day_mapping[k][1])

\* s holds a day-range phrase: LUN, an optional dot, blanks, a connector
\* (AU, A or ET), blanks, and the last day of the range
HasRangePhrase(s, last) ==
    \E i \in 1..Len(s) :
        /\ WordAt(s, i, <<"L", "U", "N">>)
        /\ i + 3 <= Len(s)
        /\ LET j == IF s[i + 3] = "." THEN i + 4 ELSE i + 3
           IN \E c \in (j + 1)..Len(s) :
                /\ IsRun(s, j, c, Space)
                /\ \E conn \in { <<"A", "U">>, <<"A">>, <<"E", "T">> } :
                     /\ WordAt(s, c, conn)
                     /\ \E l \in (c + Len(conn) + 1)..Len(s) :
                          IsRun(s, c + Len(conn), l, Space) /\ WordAt(s, l, last)

DaySet(n) == { Weekdays[k] : k \in 1..n }

\* C8: when the text holds a day-range phrase, the days are exactly the
\* weekdays of that range from Monday on (to Friday, Saturday or Sunday; the
\* shortest range when several phrases occur), whatever day names also
\* occur; with no range phrase they are exactly the days named one by one.
C8_DayRangeReplacesNamedDays ==
    pc = "parsed" =>
        LET days == { rule.days[k] : k \in DOMAIN rule.days }
        IN /\ Cardinality(days) = Len(rule.days)
           /\ days = IF HasRangePhrase(desc, <<"V", "E", "N">>) THEN DaySet(5)
                     ELSE IF HasRangePhrase(desc, <<"S", "A", "M">>) THEN DaySet(6)
                     ELSE IF HasRangePhrase(desc, <<"D", "I", "M">>) THEN DaySet(7)
                     ELSE { d \in DaySet(7) : NamesDay(desc, d) }

\* Monday to Friday with Saturday named beside it: Saturday is not kept
C8_Witness ==
    /\ pc = "parsed"
    /\ HasRangePhrase(desc, <<"V", "E", "N">>) /\ NamesDay(desc, "Saturday")
    /\ rule.days = SubSeq(Weekdays, 1, 5)

(***************************************************************************)
(* SpecTimes: parse_restriction on descriptions of time-range tokens.      *)
(***************************************************************************)
\* time ranges with and without minutes, with an hour of 24 and with 24
\* minutes, a lone clock time, a word
TimeFragments ==
    { <<"9", "h", "0", "0", "-", "1", "0", "h", "0", "0">>,
      <<"2", "4", "h", "0", "0", "-", "9", "h", "3", "0">>,
      <<"9", "h", "-", "2", "1", "h">>,
      <<"1", "2", "h", "2", "4", "-", "1", "3", "h">>,
      <<"2", "2", "h", "3", "0", "-", "2", "4", "h">>,
      <<"8", "h", "5", "-", "8", "h", "4", "5">>,
      <<"9", "h", "0", "0">>,
      <<"X">> }

InitTimes == InitFrom(Descriptions(TimeFragments))

SpecTimes == InitTimes /\ [][Next]_vars

\* s.split(' ') of a string without leading, trailing or doubled blanks
RECURSIVE SplitWords(_)
SplitWords(s) ==
    IF s = <<>> THEN <<>>
    ELSE LET blanks == {i \in 1..Len(s) : s[i] = " "}
         IN IF blanks = {} THEN <<s>>
            ELSE LET b == CHOOSE i \in blanks : \A j \in blanks : i <= j
                 IN <<SubSeq(s, 1, b - 1)>> \o SplitWords(SubSeq(s, b + 1, Len(s)))

\* the pair each time-range token of TimeFragments stands for: its two times
\* as written, an hour of 24 written 00
WrittenTimeRange(token) ==
    CASE token = <<"9", "h", "0", "0", "-", "1", "0", "h", "0", "0">> ->
           <<<<"9", "h", "0", "0">>, <<"1", "0", "h", "0", "0">>>>
      [] token = <<"2", "4", "h", "0", "0", "-", "9", "h", "3", "0">> ->
           <<<<"0", "0", "h", "0", "0">>, <<"9", "h", "3", "0">>>>
      [] token = <<"9", "h", "-", "2", "1", "h">> ->
           <<<<"9", "h">>, <<"2", "1", "h">>>>
      [] token = <<"1", "2", "h", "2", "4", "-", "1", "3", "h">> ->
           <<<<"1", "2", "h", "2", "4">>, <<"1", "3", "h">>>>
      [] token = <<"2", "2", "h", "3", "0", "-", "2", "4", "h">> ->
           <<<<"2", "2", "h", "3", "0">>, <<"0", "0", "h">>>>
      [] token = <<"8", "h", "5", "-", "8", "h", "4", "5">> ->
           <<<<"8", "h", "5">>, <<"8", "h", "4", "5">>>>

IsTimeRangeToken(token) ==
    token \in TimeFragments \ { <<"9", "h", "0", "0">>, <<"X">> }

\* C9 as stated: time_ranges holds one pair per time-range token of the text,
\* in order of appearance, with an hour of 24 turned into 00 and every other
\* hour and every minute as written.
C9_TimeRangesAsWritten ==
    (pc = "parsed" /\ desc # None) =>
        LET tokens == SelectSeq(SplitWords(desc), IsTimeRangeToken)
        IN rule.time_ranges = [k \in 1..Len(tokens) |-> WrittenTimeRange(tokens[k])]

(***************************************************************************)
(* SpecMonths: parse_restriction on '<day> <month> AU <day> <month>' for   *)
(* every pair of names of month_mapping.                                   *)
(***************************************************************************)
MonthNames == { month_mapping[k][1] : k \in DOMAIN month_mapping }

MonthDescriptions ==
    { Join(<<d1, m1, <<"A", "U">>, d2, m2>>) :
        d1 \in { <<"1">>, <<"1", "5">> }, m1 \in MonthNames,
        d2 \in { <<"1">>, <<"3", "1">> }, m2 \in MonthNames }

InitMonths == InitFrom(MonthDescriptions)

SpecMonths == InitMonths /\ [][Next]_vars

\* the number month_mapping gives the name
TableNumber(name) ==
    LET k == CHOOSE k \in DOMAIN month_mapping : month_mapping[k][1] = name
    IN month_mapping[k][2]

\* C10 as stated: for every name of the month table, '<day> <month> AU <day>
\* <month>' gives exactly one date range with the numbers of the two months
\* and the two days, and every date range recorded has its months in 1..12.
C10_EveryTableNameGivesItsRange ==
    pc = "parsed" =>
        LET w == SplitWords(desc)
        IN /\ rule.date_ranges =
                <<DateRange(IntOf(w[1]), TableNumber(w[2]), IntOf(w[4]), TableNumber(w[5]))>>
           /\ \A k \in DOMAIN rule.date_ranges :
                rule.date_ranges[k].start_month \in 1..12
                  /\ rule.date_ranges[k].end_month \in 1..12

(***************************************************************************)
(* SpecSpecials: parse_restriction on descriptions made of special         *)
(* conditions, in either order, and of words that only resemble them.      *)
(***************************************************************************)
SpecialFragments ==
    { <<"R", "E", "S", "E", "R", "V", "E">>,
      <<"H", "A", "N", "D", "I", "C", "A", "P">>,
      <<"T", "A", "X", "I", "S">>,
      <<"S", "3", "R">>,
      <<"V", "E", "H", "I", "C", "U", "L", "E", "S", " ", "D", "E", " ", "L", "A", " ", "V", "I", "L", "L", "E">>,
      <<"V", "E", "H", "I", "C", "U", "L", "E", "S", " ", "M", "I", "L", "I", "T", "A", "I", "R", "E", "S">>,
      <<"V", "E", "H", "I", "C", "U", "L", "E", "S">>,
      <<"R", "E", "S", "E", "R", "V">>,
      <<"t", "a", "x", "i">>,
      <<"\\", "P">> }

InitSpecials == InitFrom(Descriptions(SpecialFragments))

SpecSpecials == InitSpecials /\ [][Next]_vars

\* condition k of the list is written somewhere in s
SpecialOccurs(s, k) == \E i \in 1..Len(s) : WordAt(s, i, special_conditions[k])

\* C11: the special entry of the rule is the condition of the list that occurs
\* in the text and has no earlier condition of the list occurring in it, and
\* is None when no condition occurs; so a later condition is never the entry
\* when an earlier one occurs, and the entry is one condition at most.
C11_SpecialIsFirstOfList ==
    (pc = "parsed" /\ desc # None) =>
        /\ (\A k \in DOMAIN special_conditions : ~SpecialOccurs(desc, k))
              => rule.special = None
        /\ \A k \in DOMAIN special_conditions :
              (SpecialOccurs(desc, k) /\ \A j \in 1..(k - 1) : ~SpecialOccurs(desc, j))
                => rule.special = special_conditions[k]
        /\ rule.special \in {None} \cup { special_conditions[k] : k \in DOMAIN special_conditions }

\* a text where a later condition of the list is written before an earlier one
C11_Witness ==
    /\ pc = "parsed"
    /\ desc # None
    /\ \E k \in DOMAIN special_conditions : \E j \in (k + 1)..Len(special_conditions) :
          \E a \in 1..Len(desc) : \E b \in 1..(a - 1) :
            /\ WordAt(desc, a, special_conditions[k])
            /\ WordAt(desc, b, special_conditions[j])
            /\ rule.special = special_conditions[k]

(***************************************************************************)
(* SpecCalls: a caller that calls parse_restriction and is_parking_allowed *)
(* in any order, keeping every dictionary parse_restriction returned.      *)
(* calls[k] is the k-th parse_restriction call: its argument, the          *)
(* dictionary as returned, the same dictionary as it is now, and whether   *)
(* it has been given to is_parking_allowed.                                *)
(***************************************************************************)
MaxCalls == 3

CallTexts ==
    { <<"\\", "P", " ", "9", "h", "-", "2", "1", "h">>,
      <<"\\", "A", " ", "L", "U", "N">>,
      <<"T", "A", "X", "I">> }

CallTimestamps ==
    { Timestamp("Monday", 1, 10, 12, 0, 0), Timestamp("Tuesday", 1, 10, 22, 0, 0) }

InitCalls ==
    /\ ParserIdle
    /\ pc = "start"
    /\ OthersIdle

\* calls.append(parse_restriction(d))
ParseCall(d) ==
    /\ Len(calls) < MaxCalls
    /\ desc' = d
    /\ rule' = parse_restriction(d)
    /\ calls' = Append(calls, [desc |-> d, returned |-> parse_restriction(d),
                                now |-> parse_restriction(d), evaluated |-> FALSE])
    /\ pc' = "parsed"
    /\ UNCHANGED <<at, allowed, error, geo_vars, batch_df, sign_vars, distance_vars,
                   rest_vars>>

\* is_parking_allowed(calls[k], t)
EvaluateCall(k, t) ==
    /\ k \in DOMAIN calls
    /\ at' = t
    /\ allowed' = is_parking_allowed(calls[k].now, t).value
    /\ error' = is_parking_allowed(calls[k].now, t).error
    /\ calls' = [calls EXCEPT ![k].now = is_parking_allowed_leaves(@, t),
                               ![k].evaluated = TRUE]
    /\ pc' = "evaluated"
    /\ UNCHANGED <<desc, rule, geo_vars, batch_df, sign_vars, distance_vars, rest_vars>>

NextCalls ==
    \/ \E d \in CallTexts : ParseCall(d)
    \/ \E k \in 1..MaxCalls : \E t \in CallTimestamps : EvaluateCall(k, t)

SpecCalls == InitCalls /\ [][NextCalls]_vars

MaxVertices == 3

VertexGrid == { <<x, y>> : x \in {0, 30, 60}, y \in {0, 30} }

SignGrid == { <<x, y>> : x \in {-10, 0, 10, 30, 60}, y \in {-10, 0, 10, 30} }

Streets ==
    { c \in SeqsUpTo(VertexGrid, MaxVertices) :
        /\ Len(c) >= 2
        /\ \A k \in 1..(Len(c) - 1) :
              c[k] # c[k + 1] /\ (c[k][1] = c[k + 1][1] \/ c[k][2] = c[k + 1][2]) }

\* the four directions of the signs, and one that is none of them
Directions == {"both_sides", "left", "right", "up", "down"}

IntervalLengths == {50 * PerUnit, 20}

InitIntervals ==
    /\ ParserIdle
    /\ RestIdle
    /\ pc = "start"
    /\ calls = <<>>
    /\ street_line \in Streets
    /\ sign_point \in SignGrid
    /\ direction \in Directions
    /\ interval_length \in IntervalLengths
    /\ intervals = <<>>
    /\ batch_df = <<>>
    /\ SignIdle
    /\ DistanceIdle

\* intervals = create_street_interval(street_line, sign_point, direction, interval_length)
CreateStreetInterval ==
    /\ pc = "start"
    /\ intervals' = create_street_interval(street_line, sign_point, direction, interval_length)
    /\ pc' = "built"
    /\ UNCHANGED <<desc, rule, at, allowed, error, calls, batch_df, sign_vars,
                   distance_vars, rest_vars, street_line, sign_point, direction,
                   interval_length>>

NextIntervals == CreateStreetInterval

SpecIntervals == InitIntervals /\ [][NextIntervals]_vars

\* C13: 'both_sides' gives two intervals and every other direction one; with
\* the anchor the nearest point of the street and the chosen segment the one
\* the loop selects, 'left' gives chosen start -> anchor, 'right' gives
\* anchor -> chosen end, and 'both_sides' gives the two in that order.
C13_IntervalsByDirection ==
    pc = "built" =>
        LET anchor == nearest_point(street_line, sign_point)
            i == SegmentIndex(street_line, anchor)
            before == <<street_line[i], anchor>>
            after == <<anchor, street_line[i + 1]>>
        IN /\ Len(intervals) = IF direction = "both_sides" THEN 2 ELSE 1
           /\ direction = "both_sides" => intervals = <<before, after>>
           /\ direction = "left" => intervals = <<before>>
           /\ direction = "right" => intervals = <<after>>

\* 'both_sides' for a sign whose anchor is inside a segment of a street with
\* a bend
C13_Witness ==
    /\ pc = "built"
    /\ direction = "both_sides"
    /\ Len(street_line) = 3
    /\ Len(intervals) = 2
    /\ intervals[1][1] # intervals[1][2]
    /\ intervals[2][1] # intervals[2][2]
    /\ intervals[1][2] = intervals[2][1]

\* the points of the segment a-b, parallel to an axis
SegmentPoints(a, b) ==
    { <<x, y>> : x \in (IF a[1] <= b[1] THEN a[1]..b[1] ELSE b[1]..a[1]),
                 y \in (IF a[2] <= b[2] THEN a[2]..b[2] ELSE b[2]..a[2]) }

\* q is a point of a-b and no point of a-b is nearer to p
IsNearestOn(q, p, a, b) ==
    /\ q \in SegmentPoints(a, b)
    /\ \A r \in SegmentPoints(a, b) : Length2(p, q) <= Length2(p, r)

\* C14: on a street of two vertices 'both_sides' gives two intervals: the
\* first starts at the first vertex, it ends where the second starts, at the
\* point of the street nearest to the sign, and the second ends at the last
\* vertex.
C14_BothSidesCoversTheStreet ==
    (pc = "built" /\ direction = "both_sides" /\ Len(street_line) = 2) =>
        /\ Len(intervals) = 2
        /\ intervals[1][1] = street_line[1]
        /\ intervals[1][2] = intervals[2][1]
        /\ IsNearestOn(intervals[1][2], sign_point, street_line[1], street_line[2])
        /\ intervals[2][2] = street_line[2]

\* a two-vertex street and a sign beside it, its anchor inside the street
C14_Witness ==
    /\ pc = "built"
    /\ direction = "both_sides"
    /\ Len(street_line) = 2
    /\ Distance2(sign_point, street_line[1], street_line[2]) > 0
    /\ intervals[1][2] \notin {street_line[1], street_line[2]}

\* C15 as stated: every interval returned, for every street, sign and
\* direction, has two distinct points: its start and its end differ.
C15_IntervalsHaveDistinctEnds ==
    pc = "built" =>
        \A k \in DOMAIN intervals :
            Len(intervals[k]) >= 2 /\ intervals[k][1] # intervals[k][Len(intervals[k])]

\* q lies on the segment a-b, parallel to an axis
OnSegment(q, a, b) ==
    /\ (a[1] <= q[1] /\ q[1] <= b[1]) \/ (b[1] <= q[1] /\ q[1] <= a[1])
    /\ (a[2] <= q[2] /\ q[2] <= b[2]) \/ (b[2] <= q[2] /\ q[2] <= a[2])

\* C16: the chosen segment is one of the segments of the street, so that the
\* vertex after it exists; no segment is nearer to the anchor and every
\* segment before it is farther.  The anchor being a point of the street,
\* the chosen segment is the first one the anchor lies on.
C16_FirstNearestSegment ==
    pc = "built" =>
        LET anchor == nearest_point(street_line, sign_point)
            i == SegmentIndex(street_line, anchor)
            D(j) == Distance2(anchor, street_line[j], street_line[j + 1])
        IN /\ i \in 1..(Len(street_line) - 1)
           /\ \A j \in 1..(Len(street_line) - 1) : D(i) <= D(j)
           /\ \A j \in 1..(i - 1) : D(j) > D(i)
           /\ OnSegment(anchor, street_line[i], street_line[i + 1])
           /\ \A j \in 1..(i - 1) : ~OnSegment(anchor, street_line[j], street_line[j + 1])

\* the anchor on the vertex two segments share: both are at distance zero
\* and the first is chosen
C16_Witness ==
    /\ pc = "built"
    /\ Len(street_line) = 3
    /\ nearest_point(street_line, sign_point) = street_line[2]
    /\ street_line[3] # street_line[1]
    /\ SegmentIndex(street_line, street_line[2]) = 1
    /\ direction = "right"
    /\ intervals = << <<street_line[2], street_line[2]>> >>

Min(a, b) == IF a <= b THEN a ELSE b

\* the arc lengths at which the street passes through q
ArcLengthsOf(line, q) ==
    { LineLength(SubSeq(line, 1, j)) + SegmentLength(line[j], q) :
        j \in { k \in 1..(Len(line) - 1) : OnSegment(q, line[k], line[k + 1]) } }

\* C17 as stated: 'up' gives one interval, from the street point at arc
\* length max(0, p - L/2) to the street point at arc length p + L/2, p being
\* the arc length of the anchor and L the interval length.
C17_UpIsCentredOnAnchor ==
    (pc = "built" /\ direction = "up") =>
        LET p == project(street_line, sign_point)
        IN /\ Len(intervals) = 1
           /\ Max(0, p - interval_length \div 2) \in ArcLengthsOf(street_line, intervals[1][1])
           /\ (p + interval_length \div 2) \in ArcLengthsOf(street_line, intervals[1][2])

\* C17, amended: 'up' gives one interval, from the street point at arc length
\* max(0, p - L/2) to the street point at arc length p + L/2 or, when the
\* street is shorter than that, to the end of the street; the start is not
\* before arc length 0, both points are on the street and the arc length of
\* the anchor is between theirs.
C17_UpIsCentredAndClamped ==
    (pc = "built" /\ direction = "up") =>
        LET p == project(street_line, sign_point)
            from == Max(0, p - interval_length \div 2)
            to == Min(p + interval_length \div 2, LineLength(street_line))
        IN /\ Len(intervals) = 1
           /\ from \in ArcLengthsOf(street_line, intervals[1][1])
           /\ to \in ArcLengthsOf(street_line, intervals[1][2])
           /\ 0 <= from /\ from <= p /\ p <= to
           /\ p \in ArcLengthsOf(street_line, nearest_point(street_line, sign_point))

\* 'up' with the short interval length around a bend of the street: the
\* interval starts on one segment and ends on the next
C17_Witness ==
    /\ pc = "built"
    /\ direction = "up"
    /\ interval_length = 20
    /\ Len(intervals) = 1
    /\ intervals[1][1][1] # intervals[1][2][1]
    /\ intervals[1][1][2] # intervals[1][2][2]
    /\ project(street_line, sign_point) = 30

(***************************************************************************)
(* SpecBatch: parse_batch_restrictions on DataFrames of up to MaxRows      *)
(* rows, with arrow codes inside and outside 0..3 and missing ones.        *)
(***************************************************************************)
MaxRows == 2

ArrowCodes == { <<>>, <<-1>>, <<0>>, <<1>>, <<2>>, <<3>>, <<4>> }

BatchRows ==
    { [DESCRIPTION_RPA |-> d, FLECHE_PAN |-> c] :
        d \in { None, <<"\\", "P">> }, c \in ArrowCodes }

InitBatch ==
    /\ ParserIdle
    /\ RestIdle
    /\ pc = "start"
    /\ calls = <<>>
    /\ GeoIdle
    /\ SignIdle
    /\ DistanceIdle
    /\ batch_df \in SeqsUpTo(BatchRows, MaxRows)

\* batch_df = parse_batch_restrictions(batch_df)
ParseBatch ==
    /\ pc = "start"
    /\ batch_df' = parse_batch_restrictions(batch_df)
    /\ pc' = "parsed"
    /\ UNCHANGED <<desc, rule, at, allowed, error, calls, geo_vars, sign_vars,
                   distance_vars, rest_vars>>

NextBatch == ParseBatch

SpecBatch == InitBatch /\ [][NextBatch]_vars

\* the direction the specification gives an arrow code
DirectionOfCode(code) ==
    CASE code = <<0>> -> "both_sides"
      [] code = <<1>> -> "up"
      [] code = <<2>> -> "left"
      [] code = <<3>> -> "right"
      [] OTHER -> "both_sides"

\* C18: every row that leaves parse_batch_restrictions has the direction of
\* its arrow code: both_sides for 0, up for 1, left for 2, right for 3 and
\* both_sides for every other and for a missing code; so it has one of the
\* four directions.
C18_ArrowCodeGivesDirection ==
    pc = "parsed" =>
        \A k \in DOMAIN batch_df :
            /\ batch_df[k].arrow_direction = DirectionOfCode(batch_df[k].FLECHE_PAN)
            /\ batch_df[k].arrow_direction \in {"both_sides", "up", "left", "right"}

\* a DataFrame with a missing code and a code outside 0..3
C18_Witness ==
    /\ pc = "parsed"
    /\ Len(batch_df) = 2
    /\ batch_df[1].FLECHE_PAN = <<>>
    /\ batch_df[2].FLECHE_PAN = <<4>>
    /\ batch_df[1].arrow_direction = "both_sides"
    /\ batch_df[2].arrow_direction = "both_sides"

(***************************************************************************)
(* SpecSigns: _process_sign_intervals on one sign, for every way the       *)
(* requests of get_nearest_street can come out: an error, an answer        *)
(* without elements, with an element of one node, with one street, with    *)
(* two.                                                                    *)
(***************************************************************************)
StreetA ==
    [id |-> 1, name |-> "A", highway |-> "residential",
     geometry |-> << <<0, 0>>, <<30, 0>> >>]

StreetB ==
    [id |-> 2, name |-> "B", highway |-> "Unknown",
     geometry |-> << <<0, 30>>, <<30, 30>>, <<30, 0>> >>]

OneNode ==
    [id |-> 3, name |-> "Unknown", highway |-> "Unknown", geometry |-> << <<0, 0>> >>]

Responses ==
    { [error |-> "RequestException", elements |-> <<>>],
      [error |-> "JSONDecodeError", elements |-> <<>>],
      [error |-> "none", elements |-> <<>>],
      [error |-> "none", elements |-> <<OneNode>>],
      [error |-> "none", elements |-> <<OneNode, StreetA>>],
      [error |-> "none", elements |-> <<StreetB, StreetA>>] }

Signs ==
    { [sign_id |-> 7, lat |-> ll[1], lon |-> ll[2], direction |-> d] :
        ll \in { <<10, 10>>, <<30, 30>> }, d \in Directions }

InitSigns ==
    /\ ParserIdle
    /\ RestIdle
    /\ pc = "start"
    /\ calls = <<>>
    /\ GeoIdle
    /\ batch_df = <<>>
    /\ sign_data \in Signs
    /\ responses \in [1..retry_count -> Responses]
    /\ street = <<>>
    /\ result = <<>>
    /\ DistanceIdle

\* result = _process_sign_intervals(sign_data)
ProcessSignIntervals ==
    /\ pc = "start"
    /\ LET found == get_nearest_street(sign_data.lat, sign_data.lon, responses).street
           out == process_sign_intervals(sign_data, found)
       IN /\ street' = found
          /\ result' = out.result
          /\ IF found = <<>>
             THEN UNCHANGED geo_vars
             ELSE /\ street_line' = found[1].geometry
                  /\ sign_point' = <<sign_data.lon, sign_data.lat>>
                  /\ direction' = sign_data.direction
                  /\ interval_length' = 50 * PerUnit
                  /\ intervals' = out.intervals
    /\ pc' = "done"
    /\ UNCHANGED <<desc, rule, at, allowed, error, calls, batch_df, sign_data, responses,
                   distance_vars, rest_vars>>

NextSigns == ProcessSignIntervals

SpecSigns == InitSigns /\ [][NextSigns]_vars

\* C19: when get_nearest_street returned no street, _process_sign_intervals
\* returned an empty list and create_street_interval was not called.  That
\* is the case after an answer without a street of two nodes and after
\* retry_count requests that failed, and in no other.
C19_NoStreetGivesNoIntervals ==
    pc = "done" =>
        LET Failed(k) == responses[k].error # "none"
            NoStreet(k) ==
                /\ ~Failed(k)
                /\ \A e \in DOMAIN responses[k].elements :
                      Len(responses[k].elements[e].geometry) < 2
            absent ==
                \/ \A k \in 1..retry_count : Failed(k)
                \/ \E k \in 1..retry_count : NoStreet(k) /\ \A j \in 1..(k - 1) : Failed(j)
        IN /\ (street = <<>>) <=> absent
           /\ street = <<>> => (result = <<>> /\ GeoIdle)
           /\ street # <<>> => (result # <<>> /\ street_line = street[1].geometry)

\* every request failed: no street, no interval, no call of the generator
C19_Witness ==
    /\ pc = "done"
    /\ \A k \in 1..retry_count : responses[k].error # "none"
    /\ street = <<>>
    /\ result = <<>>
    /\ street_line = <<>>

(***************************************************************************)
(* SpecFilter: filter_coordinates_by_distance around (0, 0) on lists of up *)
(* to MaxCoordinates coordinates of the meridian and the equator through   *)
(* it, for a radius of zero, one and two degrees of a great circle.        *)
(***************************************************************************)
MaxCoordinates == 3

FilterCoordinates ==
    { <<0, 0>>, <<1, 0>>, <<-1, 0>>, <<3, 0>>, <<0, 2>>, <<0, -1>> }

FilterRadiuses == { 0, MetresPerDegree, 2 * MetresPerDegree }

InitFilter ==
    /\ ParserIdle
    /\ RestIdle
    /\ pc = "start"
    /\ calls = <<>>
    /\ GeoIdle
    /\ batch_df = <<>>
    /\ SignIdle
    /\ coordinates \in SeqsUpTo(FilterCoordinates, MaxCoordinates)
    /\ center_lat = 0
    /\ center_lon = 0
    /\ radius_km \in FilterRadiuses
    /\ filtered = <<>>

\* filtered = filter_coordinates_by_distance(coordinates, center_lat, center_lon, radius_km)
FilterCoordinatesByDistance ==
    /\ pc = "start"
    /\ filtered' = filter_coordinates_by_distance(coordinates, center_lat, center_lon, radius_km)
    /\ pc' = "filtered"
    /\ UNCHANGED <<desc, rule, at, allowed, error, calls, geo_vars, batch_df, sign_vars,
                   rest_vars, coordinates, center_lat, center_lon, radius_km>>

NextFilter == FilterCoordinatesByDistance

SpecFilter == InitFilter /\ [][NextFilter]_vars

HaversineLatitudes == {-90, -45, 0, 45, 90}

HaversineLongitudes == {-180, -73, 0, 107, 180}

HaversinePoints == HaversineLatitudes \X HaversineLongitudes

\* the pairs of coordinates the formula is modelled for
HaversineModelled(p, q) ==
    \/ p[2] = q[2]
    \/ p[1] = 0 /\ q[1] = 0
    \/ Abs(p[1]) = 90
    \/ Abs(q[1]) = 90

InitHaversine ==
    /\ ParserIdle
    /\ pc = "start"
    /\ calls = <<>>
    /\ GeoIdle
    /\ batch_df = <<>>
    /\ SignIdle
    /\ DistanceIdle
    /\ TasksIdle
    /\ LookupIdle
    /\ point1 \in HaversinePoints
    /\ point2 \in HaversinePoints
    /\ HaversineModelled(point1, point2)
    /\ measured = [forward |-> <<>>, backward |-> <<>>, same |-> <<>>]

\* haversine_distance(lat1, lon1, lat2, lon2)
MeasureForward ==
    /\ measured.forward = <<>>
    /\ measured' = [measured EXCEPT
                      !.forward = <<haversine_distance(point1[1], point1[2],
                                                       point2[1], point2[2])>>]
    /\ UNCHANGED <<parser_vars, calls, geo_vars, batch_df, sign_vars, distance_vars,
                   task_vars, lookup, point1, point2>>

\* haversine_distance(lat2, lon2, lat1, lon1)
MeasureBackward ==
    /\ measured.backward = <<>>
    /\ measured' = [measured EXCEPT
                      !.backward = <<haversine_distance(point2[1], point2[2],
                                                        point1[1], point1[2])>>]
    /\ UNCHANGED <<parser_vars, calls, geo_vars, batch_df, sign_vars, distance_vars,
                   task_vars, lookup, point1, point2>>

\* haversine_distance(lat1, lon1, lat1, lon1)
MeasureSame ==
    /\ measured.same = <<>>
    /\ measured' = [measured EXCEPT
                      !.same = <<haversine_distance(point1[1], point1[2],
                                                    point1[1], point1[2])>>]
    /\ UNCHANGED <<parser_vars, calls, geo_vars, batch_df, sign_vars, distance_vars,
                   task_vars, lookup, point1, point2>>

NextHaversine ==
    \/ MeasureForward
    \/ MeasureBackward
    \/ MeasureSame

SpecHaversine == InitHaversine /\ [][NextHaversine]_vars

StatusLimit == 100

\* request.args.get('page_size', 100), and page_size = 100
DefaultPageSize == 100

\* page_size > 1000
MaxPageSize == 1000

\* list[start_idx:end_idx], with 0 <= start_idx
ListSlice(list, start_idx, end_idx) ==
    SubSeq(list, start_idx + 1, IF end_idx < Len(list) THEN end_idx ELSE Len(list))

\* the dictionary of a task start_analysis stores
NewTask(area) == [area |-> area, status |-> "pending", progress |-> 0, results |-> <<>>]

\* the handler of line 286 leaving the status as it is
StatusAt_Swallowed(line) ==
    CASE line = "L202" -> "running"
      [] line = "L210" -> "failed"
      [] line = "L278" -> "completed"
      [] line = "L287" -> "running"

\* the value background_analysis writes to 'status' at a line
StatusAt(line) ==
    CASE line = "L202" -> "running"
      [] line = "L210" -> "failed"
      [] line = "L278" -> "completed"
      [] line = "L287" -> "failed"

\* the progress of line 255 below the one of line 207
ProgressAt_Unordered(line) ==
    CASE line = "L203" -> 10
      [] line = "L207" -> 50
      [] line = "L255" -> 40
      [] line = "L279" -> 100

\* the value background_analysis writes to 'progress' at a line
ProgressAt(line) ==
    CASE line = "L203" -> 10
      [] line = "L207" -> 50
      [] line = "L255" -> 80
      [] line = "L279" -> 100

\* get_task_status: the tasks as the request leaves them, and its answer.
\* task is a copy of the stored dictionary, but task['results'] is the stored
\* results dictionary itself, so the assignments of lines 320 and 321 are
\* made to the stored task.
get_task_status(tasks, id) ==
    IF id \in DOMAIN tasks
    THEN LET task == tasks[id]
             limits == task.status = "completed" /\ task.results # <<>>
             limited == [task.results[1] EXCEPT
                            !.intervals = ListSlice(@, 0, StatusLimit),
                            !.intervals_truncated =
                                <<Len(ListSlice(task.results[1].intervals, 0, StatusLimit))
                                    > StatusLimit>>]
             stored == IF limits THEN [tasks EXCEPT ![id].results = <<limited>>] ELSE tasks
         IN  [tasks |-> stored,
              response |-> [NoResponse EXCEPT !.endpoint = "status", !.task_id = id,
                                              !.code = 200, !.status = task.status,
                                              !.progress = task.progress,
                                              !.results = stored[id].results]]
    ELSE [tasks |-> tasks,
          response |-> [NoResponse EXCEPT !.endpoint = "status", !.task_id = id,
                                          !.code = 404]]

\* if page < 1: page = 1
ValidPage(page_arg) == IF page_arg < 1 THEN 1 ELSE page_arg

\* if page_size < 1 or page_size > 1000: page_size = 100
ValidPageSize(size_arg) ==
    IF size_arg < 1 \/ size_arg > MaxPageSize THEN DefaultPageSize ELSE size_arg

\* total_intervals // page_size: the last, partial page not counted
TotalPages_Floor(total_intervals, size) == total_intervals \div size

\* (total_intervals + page_size - 1) // page_size
TotalPages(total_intervals, size) == (total_intervals + size - 1) \div size

\* get_task_intervals: its answer
get_task_intervals(tasks, id, page_arg, size_arg) ==
    IF id \notin DOMAIN tasks
    THEN [NoResponse EXCEPT !.endpoint = "intervals", !.task_id = id, !.code = 404]
    ELSE IF tasks[id].status # "completed" \/ tasks[id].results = <<>>
    THEN [NoResponse EXCEPT !.endpoint = "intervals", !.task_id = id, !.code = 400]
    ELSE LET page == ValidPage(page_arg)
             page_size == ValidPageSize(size_arg)
             all_intervals == tasks[id].results[1].intervals
             total_intervals == Len(all_intervals)
             start_idx == (page - 1) * page_size
             end_idx == start_idx + page_size
         IN  [NoResponse EXCEPT !.endpoint = "intervals", !.task_id = id,
                                !.args = <<page_arg, size_arg>>, !.code = 200,
                                !.page = page, !.page_size = page_size,
                                !.total_intervals = total_intervals,
                                !.total_pages = TotalPages(total_intervals, page_size),
                                !.intervals = ListSlice(all_intervals, start_idx, end_idx)]

(***************************************************************************)
(* db/operations.py: create_area_summary, in its two accesses to the       *)
(* table: the query for a row of the area, and the commit of the update    *)
(* or of the new row.  No constraint of AreaSummary joins the two.         *)
(***************************************************************************)
\* session.query(AreaSummary).filter_by(...).first(): the position of the
\* first row of the area, 0 for None
FirstSummary(rows, area) ==
    IF \E i \in DOMAIN rows : rows[i].area = area
    THEN CHOOSE i \in DOMAIN rows :
             /\ rows[i].area = area
             /\ \A j \in DOMAIN rows : rows[j].area = area => i <= j
    ELSE 0

\* the row of an area with its counts
SummaryRow(area, total_signs, total_intervals, free_intervals) ==
    [area |-> area, total_signs |-> total_signs, total_intervals |-> total_intervals,
     free_intervals |-> free_intervals,
     restricted_intervals |-> total_intervals - free_intervals]

\* the table after session.commit(): the row found updated, or a row added
CommitSummaryRow(rows, found, row) ==
    IF found # 0 THEN [rows EXCEPT ![found] = row] ELSE Append(rows, row)

(***************************************************************************)
(* The tasks: start_analysis requests, the threads they start, and the     *)
(* task requests, in any interleaving.                                     *)
(***************************************************************************)
\* the task ids uuid4 gives
TaskIds == {"t1", "t2"}

\* the areas analysed: what get_area_parking_data finds there, and how many
\* of the intervals is_parking_allowed allows at the time of the analysis
Areas == {"empty", "bare", "small", "large"}

AreaData(area) ==
    CASE area = "empty" -> [signs |-> 0, intervals |-> 0, free |-> 0]
      [] area = "bare"  -> [signs |-> 2, intervals |-> 0, free |-> 0]
      [] area = "small" -> [signs |-> 2, intervals |-> 3, free |-> 1]
      [] area = "large" -> [signs |-> 40, intervals |-> StatusLimit + 1, free |-> 60]

\* the page and page_size arguments of the requests
PageArgs == {0, 1, 2, 52}

PageSizeArgs == {0, 1, 2, DefaultPageSize, MaxPageSize, MaxPageSize + 1}

\* the variables no task action changes
not_task_vars ==
    <<parser_vars, calls, geo_vars, batch_df, sign_vars, distance_vars, haversine_vars,
      lookup>>

InitTasks ==
    /\ ParserIdle
    /\ pc = "start"
    /\ OthersIdle

\* the thread of task t is about to run a line
AtLine(t, line) == t \in DOMAIN threads /\ threads[t].pc = line

\* start_analysis: the task is stored and its thread started
StartAnalysis(t, area) ==
    /\ t \notin DOMAIN analysis_tasks
    /\ analysis_tasks' = analysis_tasks @@ (t :> NewTask(area))
    /\ threads' = threads @@ (t :> [pc |-> "L202", area |-> area, signs |-> 0,
                                    processed_intervals |-> <<>>, free_intervals |-> 0,
                                    summary |-> 0])
    /\ UNCHANGED <<area_summaries, response, not_task_vars>>

\* analysis_tasks[task_id]['status'] = 'running'
SetRunning(t) ==
    /\ AtLine(t, "L202")
    /\ analysis_tasks' = [analysis_tasks EXCEPT ![t].status = StatusAt("L202")]
    /\ threads' = [threads EXCEPT ![t].pc = "L203"]
    /\ UNCHANGED <<area_summaries, response, not_task_vars>>

\* analysis_tasks[task_id]['progress'] = 10
SetProgress10(t) ==
    /\ AtLine(t, "L203")
    /\ analysis_tasks' = [analysis_tasks EXCEPT ![t].progress = ProgressAt("L203")]
    /\ threads' = [threads EXCEPT ![t].pc = "L206"]
    /\ UNCHANGED <<area_summaries, response, not_task_vars>>

\* signs_df, intervals_df = get_area_parking_data(lat, lon, radius), or the
\* exception it raises
GetAreaParkingData(t, raised) ==
    /\ AtLine(t, "L206")
    /\ threads' = [threads EXCEPT
                      ![t].pc = IF raised THEN "L287" ELSE "L207",
                      ![t].signs = IF raised THEN @ ELSE AreaData(threads[t].area).signs]
    /\ UNCHANGED <<analysis_tasks, area_summaries, response, not_task_vars>>

\* analysis_tasks[task_id]['progress'] = 50, then the test of signs_df.empty
SetProgress50(t) ==
    /\ AtLine(t, "L207")
    /\ analysis_tasks' = [analysis_tasks EXCEPT ![t].progress = ProgressAt("L207")]
    /\ threads' = [threads EXCEPT ![t].pc = IF threads[t].signs = 0 THEN "L210" ELSE "L234"]
    /\ UNCHANGED <<area_summaries, response, not_task_vars>>

\* analysis_tasks[task_id]['status'] = 'failed', the message, and return
FailWithoutSigns(t) ==
    /\ AtLine(t, "L210")
    /\ analysis_tasks' = [analysis_tasks EXCEPT ![t].status = StatusAt("L210")]
    /\ threads' = [threads EXCEPT ![t].pc = "done"]
    /\ UNCHANGED <<area_summaries, response, not_task_vars>>

\* the loop over the merged rows: is_parking_allowed on each, the counts
\* and processed_intervals; or the exception is_parking_allowed raises
ProcessIntervals(t, raised) ==
    /\ AtLine(t, "L234")
    /\ threads' = [threads EXCEPT
                      ![t].pc = IF raised THEN "L287" ELSE "L255",
                      ![t].processed_intervals =
                          IF raised THEN @
                          ELSE [i \in 1..AreaData(threads[t].area).intervals |-> i],
                      ![t].free_intervals =
                          IF raised THEN @ ELSE AreaData(threads[t].area).free]
    /\ UNCHANGED <<analysis_tasks, area_summaries, response, not_task_vars>>

\* analysis_tasks[task_id]['progress'] = 80
SetProgress80(t) ==
    /\ AtLine(t, "L255")
    /\ analysis_tasks' = [analysis_tasks EXCEPT ![t].progress = ProgressAt("L255")]
    /\ threads' = [threads EXCEPT ![t].pc = "L319"]
    /\ UNCHANGED <<area_summaries, response, not_task_vars>>

\* create_area_summary, the query for the summary of the area; an exception
\* is rolled back and raised again
QuerySummary(t, raised) ==
    /\ AtLine(t, "L319")
    /\ threads' = [threads EXCEPT
                      ![t].pc = IF raised THEN "L287" ELSE "L347",
                      ![t].summary = IF raised THEN @
                                     ELSE FirstSummary(area_summaries, threads[t].area)]
    /\ UNCHANGED <<analysis_tasks, area_summaries, response, not_task_vars>>

\* create_area_summary, the update or session.add, and session.commit()
CommitSummary(t, raised) ==
    /\ AtLine(t, "L347")
    /\ area_summaries' =
           IF raised THEN area_summaries
           ELSE CommitSummaryRow(area_summaries, threads[t].summary,
                                 SummaryRow(threads[t].area, threads[t].signs,
                                            Len(threads[t].processed_intervals),
                                            threads[t].free_intervals))
    /\ threads' = [threads EXCEPT ![t].pc = IF raised THEN "L287" ELSE "L278"]
    /\ UNCHANGED <<analysis_tasks, response, not_task_vars>>

\* analysis_tasks[task_id]['status'] = 'completed'
SetCompleted(t) ==
    /\ AtLine(t, "L278")
    /\ analysis_tasks' = [analysis_tasks EXCEPT ![t].status = StatusAt("L278")]
    /\ threads' = [threads EXCEPT ![t].pc = "L279"]
    /\ UNCHANGED <<area_summaries, response, not_task_vars>>

\* analysis_tasks[task_id]['progress'] = 100
SetProgress100(t) ==
    /\ AtLine(t, "L279")
    /\ analysis_tasks' = [analysis_tasks EXCEPT ![t].progress = ProgressAt("L279")]
    /\ threads' = [threads EXCEPT ![t].pc = "L280"]
    /\ UNCHANGED <<area_summaries, response, not_task_vars>>

\* analysis_tasks[task_id]['results'] = {...}, and 'completed_at'
SetResults(t) ==
    /\ AtLine(t, "L280")
    /\ analysis_tasks' =
           [analysis_tasks EXCEPT
               ![t].results =
                   <<[summary |-> SummaryRow(threads[t].area, threads[t].signs,
                                             Len(threads[t].processed_intervals),
                                             threads[t].free_intervals),
                      intervals |-> threads[t].processed_intervals,
                      intervals_truncated |-> <<>>]>>]
    /\ threads' = [threads EXCEPT ![t].pc = "done"]
    /\ UNCHANGED <<area_summaries, response, not_task_vars>>

\* except Exception: analysis_tasks[task_id]['status'] = 'failed', the message
FailOnError(t) ==
    /\ AtLine(t, "L287")
    /\ analysis_tasks' = [analysis_tasks EXCEPT ![t].status = StatusAt("L287")]
    /\ threads' = [threads EXCEPT ![t].pc = "done"]
    /\ UNCHANGED <<area_summaries, response, not_task_vars>>

\* the next statement of the thread of task t
ThreadStep(t) ==
    \/ SetRunning(t)
    \/ SetProgress10(t)
    \/ \E raised \in BOOLEAN : GetAreaParkingData(t, raised)
    \/ SetProgress50(t)
    \/ FailWithoutSigns(t)
    \/ \E raised \in BOOLEAN : ProcessIntervals(t, raised)
    \/ SetProgress80(t)
    \/ \E raised \in BOOLEAN : QuerySummary(t, raised)
    \/ \E raised \in BOOLEAN : CommitSummary(t, raised)
    \/ SetCompleted(t)
    \/ SetProgress100(t)
    \/ SetResults(t)
    \/ FailOnError(t)

\* GET /task/<task_id>
GetTaskStatus(t) ==
    /\ analysis_tasks' = get_task_status(analysis_tasks, t).tasks
    /\ response' = get_task_status(analysis_tasks, t).response
    /\ UNCHANGED <<threads, area_summaries, not_task_vars>>

\* GET /task/<task_id>/intervals?page=&page_size=
GetTaskIntervals(t, page_arg, size_arg) ==
    /\ response' = get_task_intervals(analysis_tasks, t, page_arg, size_arg)
    /\ UNCHANGED <<analysis_tasks, threads, area_summaries, not_task_vars>>

NextTasks ==
    \/ \E t \in TaskIds : \E area \in Areas : StartAnalysis(t, area)
    \/ \E t \in TaskIds : ThreadStep(t)
    \/ \E t \in TaskIds : GetTaskStatus(t)
    \/ \E t \in TaskIds : \E page_arg \in PageArgs : \E size_arg \in PageSizeArgs :
           GetTaskIntervals(t, page_arg, size_arg)

SpecTasks == InitTasks /\ [][NextTasks]_vars

\* the analyses and the status requests, which write to the tasks too
NextAnalysis ==
    \/ \E t \in TaskIds : \E area \in Areas : StartAnalysis(t, area)
    \/ \E t \in TaskIds : ThreadStep(t)
    \/ \E t \in TaskIds : GetTaskStatus(t)

\* the thread of every task started keeps being scheduled
SpecAnalysisFair ==
    InitTasks /\ [][NextAnalysis]_vars /\ \A t \in TaskIds : WF_vars(ThreadStep(t))

\* a task that is completed and whose results are set
Completed(t) ==
    /\ t \in DOMAIN analysis_tasks
    /\ analysis_tasks[t].status = "completed"
    /\ analysis_tasks[t].results # <<>>

\* C22: a task-status request leaves the stored task as it is: whatever
\* status and intervals requests were made on a completed task, the task
\* still holds every interval its analysis produced, and an intervals
\* request reports as many (total_intervals is the number produced).
C22_StatusLeavesIntervals ==
    /\ \A t \in TaskIds :
           Completed(t) =>
               analysis_tasks[t].results[1].intervals = threads[t].processed_intervals
    /\ (response.endpoint = "intervals" /\ response.code = 200) =>
           response.total_intervals = Len(threads[response.task_id].processed_intervals)

\* C23: an intervals request on a completed task holding N intervals is
\* served with the page raised to 1 when below 1 and the page size set to
\* 100 when outside 1..1000; total_pages is the ceiling of N over the page
\* size; page p holds the intervals (p-1)*size+1 .. min(p*size, N) of the
\* list in their order, so the pages 1..total_pages are consecutive slices
\* that make up the list, and every page beyond total_pages is empty.
C23_PagesAreConsecutiveSlices ==
    (response.endpoint = "intervals" /\ response.code = 200) =>
        LET all_intervals == analysis_tasks[response.task_id].results[1].intervals
            N == Len(all_intervals)
            p == response.page
            size == response.page_size
            pages == response.total_pages
        IN  /\ p = (IF response.args[1] < 1 THEN 1 ELSE response.args[1])
            /\ size = (IF response.args[2] \in 1..1000 THEN response.args[2] ELSE 100)
            /\ response.total_intervals = N
            /\ pages * size >= N
            /\ (pages - 1) * size < N
            /\ Len(response.intervals) =
                   (IF p > pages THEN 0 ELSE IF p < pages THEN size ELSE N - (p - 1) * size)
            /\ \A k \in 1..Len(response.intervals) :
                   response.intervals[k] = all_intervals[(p - 1) * size + k]

\* the second and last page of 101 intervals, asked with a page size above
\* 1000: one interval, the last
C23_Witness ==
    /\ response.endpoint = "intervals"
    /\ response.code = 200
    /\ response.args = <<2, 1001>>
    /\ response.total_intervals = 101
    /\ response.total_pages = 2
    /\ response.intervals = <<101>>

\* C25: whenever a task is read with status 'completed', its results are
\* set and its progress is 100, in the dictionary and in the answer of a
\* status request.
C25_CompletedHasResults ==
    /\ \A t \in DOMAIN analysis_tasks :
           analysis_tasks[t].status = "completed" =>
               (analysis_tasks[t].results # <<>> /\ analysis_tasks[t].progress = 100)
    /\ (response.endpoint = "status" /\ response.status = "completed") =>
           (response.results # <<>> /\ response.progress = 100)

\* C26: a task is stored as pending; its status then only moves from
\* pending to running and from running to completed or to failed, so a
\* completed or failed task keeps its status and a completed task has been
\* running; its progress never decreases.
C26_StatusMovesForward ==
    [][/\ \A t \in DOMAIN analysis_tasks' \ DOMAIN analysis_tasks :
              analysis_tasks'[t].status = "pending"
       /\ \A t \in DOMAIN analysis_tasks :
              /\ t \in DOMAIN analysis_tasks'
              /\ \/ analysis_tasks'[t].status = analysis_tasks[t].status
                 \/ <<analysis_tasks[t].status, analysis_tasks'[t].status>> \in
                        {<<"pending", "running">>, <<"running", "completed">>,
                         <<"running", "failed">>}
              /\ analysis_tasks'[t].progress >= analysis_tasks[t].progress]_vars

\* one task completed at progress 100, another failed at progress 80 on an
\* error of the summary storage
C26_Witness ==
    \E t, u \in DOMAIN analysis_tasks :
        /\ analysis_tasks[t].status = "completed"
        /\ analysis_tasks[t].progress = 100
        /\ analysis_tasks[u].status = "failed"
        /\ analysis_tasks[u].progress = 80

\* C27: every task start_analysis stored comes to status completed or
\* failed, when its thread keeps being scheduled.
C27_EveryTaskEnds ==
    \A t \in TaskIds :
        (t \in DOMAIN analysis_tasks) ~>
            (t \in DOMAIN analysis_tasks /\ analysis_tasks[t].status \in {"completed", "failed"})

\* the tasks ended after an exception of each kind: of the data retrieval
\* (progress 10) and of the evaluation (progress 50)
C27_Witness ==
    \E t, u \in DOMAIN analysis_tasks :
        /\ analysis_tasks[t].status = "failed"
        /\ analysis_tasks[t].progress = 10
        /\ threads[t].pc = "done"
        /\ analysis_tasks[u].status = "failed"
        /\ analysis_tasks[u].progress = 50
        /\ threads[u].area # "empty"
        /\ threads[u].pc = "done"

\* C30: the table holds at most one summary of an area.
C30_OneSummaryPerArea ==
    \A i, j \in DOMAIN area_summaries :
        area_summaries[i].area = area_summaries[j].area => i = j

(***************************************************************************)
(* get_nearest_street request by request: each pass of the loop sends one  *)
(* request, which comes to one of the answers or exceptions of Responses.  *)
(***************************************************************************)
LookupPoints == { <<10, 10>>, <<30, 30>>, <<0, 20>> }

InitLookup ==
    /\ ParserIdle
    /\ pc = "start"
    /\ calls = <<>>
    /\ GeoIdle
    /\ batch_df = <<>>
    /\ SignIdle
    /\ DistanceIdle
    /\ HaversineIdle
    /\ TasksIdle
    /\ \E ll \in LookupPoints :
           lookup = [lat |-> ll[1], lon |-> ll[2], attempt |-> 0, sent |-> <<>>,
                     returned |-> FALSE, street |-> <<>>]

\* one pass of 'for attempt in range(retry_count)': the request, and the
\* return of the street or of None, or the handler of the exception
SendRequest(r) ==
    /\ ~lookup.returned
    /\ lookup.attempt < retry_count
    /\ lookup' =
           IF Answered(r)
           THEN LET streets == StreetsOf(r.elements, lookup.lat, lookup.lon)
                IN  [lookup EXCEPT !.sent = Append(@, r), !.returned = TRUE,
                                   !.street = IF streets # <<>> THEN <<NearestOf(streets)>>
                                              ELSE <<>>]
           ELSE IF lookup.attempt < retry_count - 1
                THEN [lookup EXCEPT !.sent = Append(@, r), !.attempt = @ + 1]
                ELSE [lookup EXCEPT !.sent = Append(@, r), !.returned = TRUE,
                                    !.street = <<>>]
    /\ UNCHANGED <<parser_vars, calls, geo_vars, batch_df, sign_vars, distance_vars,
                   haversine_vars, task_vars>>

NextLookup == \E r \in Responses : SendRequest(r)

SpecLookup == InitLookup /\ [][NextLookup]_vars

\* the elements of an answer that are streets of two nodes or more
StreetElements(r) == { k \in DOMAIN r.elements : Len(r.elements[k].geometry) >= 2 }

OvernightFragments ==
    { <<"\\", "P">>,
      <<"2", "2", "h", "0", "0", "-", "0", "6", "h", "0", "0">>,
      <<"2", "2", "h", "3", "0", "-", "2", "4", "h">>,
      <<"2", "3", "h", "-", "5", "h", "3", "0">>,
      <<"9", "h", "0", "0", "-", "1", "8", "h", "0", "0">>,
      <<"L", "U", "N">> }

OvernightTimestamps ==
    { Timestamp(wd, 3, 10, hms[1], hms[2], hms[3]) :
        wd \in {"Monday", "Tuesday"},
        hms \in { <<0, 0, 0>>, <<3, 0, 0>>, <<5, 59, 59>>, <<12, 0, 0>>,
                  <<22, 30, 0>>, <<23, 59, 59>> } }

InitOvernight == InitFrom(Descriptions(OvernightFragments))

NextOvernight == Parse \/ \E t \in OvernightTimestamps : Evaluate(t)

SpecOvernight == InitOvernight /\ [][NextOvernight]_vars

\* the window is of two times of day of which the second is the earlier
EndsBeforeStart(window) ==
    /\ ClockHours(window[1]) \in 0..23
    /\ ClockMinutes(window[1]) \in 0..59
    /\ ClockHours(window[2]) \in 0..23
    /\ ClockMinutes(window[2]) \in 0..59
    /\ ClockHours(window[2]) * 60 + ClockMinutes(window[2])
           < ClockHours(window[1]) * 60 + ClockMinutes(window[1])

\* C28: is_parking_allowed returns a value on every rule parse_restriction
\* returned, at every timestamp: it raises nothing.
C28_EvaluationNeverFails == pc = "evaluated" => error = "none"

\* C29: a rule that is not always restricted and whose time windows, one or
\* more, all end before they start (22h00-06h00, or 22h30-24h recorded as
\* 22h30 to 00h) is allowed at every timestamp: no time of day is in such a
\* window.
C29_OvernightWindowsHoldNoTime ==
    (/\ pc = "evaluated"
     /\ ~rule.all_time
     /\ rule.time_ranges # <<>>
     /\ \A k \in DOMAIN rule.time_ranges : EndsBeforeStart(rule.time_ranges[k]))
        => (error = "none" /\ allowed = TRUE)

\* '\P 22h30-24h' evaluated at 23:59:59: allowed
C29_Witness ==
    /\ pc = "evaluated"
    /\ desc = <<"\\", "P", " ", "2", "2", "h", "3", "0", "-", "2", "4", "h">>
    /\ rule.is_restricted
    /\ rule.time_ranges = << << <<"2", "2", "h", "3", "0">>, <<"0", "0", "h">> >> >>
    /\ at.hour = 23
    /\ allowed = TRUE

====
